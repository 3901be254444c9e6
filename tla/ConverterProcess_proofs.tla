----------------------- MODULE ConverterProcess_proofs -----------------------
(***************************************************************************)
(* Safety of ConverterProcess for any number of worker threads and of      *)
(* conversions, with converters that fail, hang or outlive their time.     *)
(***************************************************************************)
EXTENDS ConverterProcess, TLAPS

AllEnds == ChildEnds \cup OurEnds

\* A conversion, with its process and its pipes, is one worker's.
OwnConversion ==
  \A v, w \in Workers : conversion[v] = conversion[w] /\ conversion[w] # None => v = w

\* A process runs only while it is waited for or after it was told to end; and one that
\* is waited for has not been told to.
ProcessOK ==
  /\ \A c \in Conversions : Alive(c) => WillEnd(c)
  /\ \A w \in Workers :
       /\ at[w] # "idle" => conversion[w] \notin doomed
       /\ at[w] \in {"drain", "check"} => ~Alive(conversion[w])

\* Which of its six handles a conversion has at which step, and which may be inherited.
HandlesOK(w) ==
  /\ at[w] \in {"idle", "pipes", "check"} => Handles(conversion[w], AllEnds) \cap ours = {}
  /\ at[w] \in {"request", "wait", "drain"} => Handles(conversion[w], ChildEnds) \cap ours = {}
  /\ at[w] \in {"wait", "drain"} => Handle(conversion[w], "stdin_write") \notin ours
  /\ at[w] \in {"protect", "spawn"} => Handles(conversion[w], ChildEnds) \subseteq inheritable
  /\ at[w] # "protect" => Handle(conversion[w], "stdin_write") \notin inheritable

\* Only a process that runs has handles: the read end of its own stdin, never the write end.
ProcessHandlesOK(c) ==
  /\ theirs[c] # {} => Alive(c)
  /\ Alive(c) => Handle(c, "stdin_read") \in theirs[c]
  /\ Handle(c, "stdin_write") \notin theirs[c]

\* A converter says that it succeeded once it has written its output.
SaysOK(c) ==
  /\ converter[c] \in {"none", "reading", "converting"} => ~success[c]
  /\ success[c] => output[c] = "fresh"

\* And nobody touches the output of a success before the worker's next conversion.
ResultOK(w) ==
  /\ at[w] # "idle" => result[w] = "none"
  /\ result[w] = "SUCCESS" =>
       conversion[w] # None /\ output[conversion[w]] = "fresh" /\ ~Alive(conversion[w])

IInv ==
  /\ TypeOK
  /\ OwnConversion
  /\ ProcessOK
  /\ \A w \in Workers : HandlesOK(w)
  /\ \A c \in Conversions : ProcessHandlesOK(c)
  /\ \A c \in Conversions : SaysOK(c)
  /\ \A w \in Workers : ResultOK(w)

USE ConverterAssumption

\* The invariant holds when the service has started no conversion.
LEMMA InitInv == Init => IInv
<1> SUFFICES ASSUME Init PROVE IInv
  OBVIOUS
<1>1. TypeOK
  BY DEF Init, TypeOK
<1>2. OwnConversion /\ ProcessOK
  BY DEF Init, OwnConversion, ProcessOK, Alive
<1>3. \A w \in Workers : HandlesOK(w) /\ ResultOK(w)
  BY DEF Init, HandlesOK, ResultOK, Handles, Handle
<1>4. \A c \in Conversions : ProcessHandlesOK(c) /\ SaysOK(c)
  BY DEF Init, ProcessHandlesOK, SaysOK, Alive
<1> QED
  BY <1>1, <1>2, <1>3, <1>4 DEF IInv

-----------------------------------------------------------------------------
(* Types                                                                   *)

LEMMA ServiceTypes ==
  ASSUME TypeOK, OwnConversion, NEW w \in Workers, Start(w) \/ RunConverterWorker(w)
  PROVE  TypeOK'
<1>1. CASE Start(w)
  <2>1. PICK c \in Unused(w), file \in {"none", "stale"} :
          /\ conversion' = [conversion EXCEPT ![w] = c]
          /\ converter' = [converter EXCEPT ![c] = "none"]
          /\ doomed' = doomed \ {c}
          /\ success' = [success EXCEPT ![c] = FALSE]
          /\ exitCode' = [exitCode EXCEPT ![c] = 0]
          /\ output' = [output EXCEPT ![c] = file]
    BY <1>1 DEF Start
  <2>2. c \in Conversions /\ \A v \in Workers \ {w} : conversion[v] # c
    BY DEF Unused
  <2> QED
    BY <1>1, <2>1, <2>2 DEF TypeOK, Start, Goto, pipeVars
<1>2. CASE CreatePipes(w)
  BY <1>2 DEF TypeOK, CreatePipes, Return, Goto, Handles, childVars, pipeVars
<1>3. CASE ProtectPipes(w)
  BY <1>3 DEF TypeOK, ProtectPipes, Goto, childVars
<1>4. CASE CreateProcess(w)
  BY <1>4 DEF TypeOK, OwnConversion, CreateProcess, Goto, pipeVars
<1>5. CASE CreateProcessFails(w)
  BY <1>5 DEF TypeOK, CreateProcessFails, Return, Goto, Close, childVars
<1>6. CASE CloseChildEnds(w) \/ SendRequest(w)
  BY <1>6 DEF TypeOK, CloseChildEnds, SendRequest, Goto, Close, childVars
<1>7. CASE SendRequestFails(w) \/ WaitTimesOut(w)
  BY <1>7 DEF TypeOK, SendRequestFails, WaitTimesOut, Return, Goto, Close, Terminate
<1>8. CASE WaitEnds(w) \/ ReadOutput(w)
  BY <1>8 DEF TypeOK, WaitEnds, ReadOutput, Goto, Close, pipeVars, childVars
<1>9. CASE CheckResponse(w)
  BY <1>9 DEF TypeOK, CheckResponse, Return, Goto, pipeVars, childVars
<1> QED
  BY <1>1, <1>2, <1>3, <1>4, <1>5, <1>6, <1>7, <1>8, <1>9 DEF RunConverterWorker

LEMMA ConverterTypes ==
  ASSUME TypeOK, NEW c \in Conversions, Converter(c) \/ Die(c)
  PROVE  TypeOK'
<1>1. CASE ReadRequest(c) \/ Block(c)
  BY <1>1 DEF TypeOK, ReadRequest, Block, pipeVars
<1>2. CASE Convert(c)
  <2>1. output' \in [Conversions -> {"none", "stale", "torn", "fresh"}]
    BY <1>2 DEF TypeOK, Convert
  <2>2. success' \in [Conversions -> BOOLEAN]
    BY <1>2 DEF TypeOK, Convert
  <2> QED
    BY <1>2, <2>1, <2>2 DEF TypeOK, Convert, pipeVars
<1>3. CASE Exit(c) \/ ExitOnError(c) \/ Die(c)
  BY <1>3 DEF TypeOK, Exit, ExitOnError, Die, Ends, Alive, pipeVars
<1> QED
  BY <1>1, <1>2, <1>3 DEF Converter

-----------------------------------------------------------------------------
(* What a step of the service and one of a converter leave alone           *)

\* Every step of RunConverterWorker is at a step of its own, and changes at, result and the
\* handles of its own conversion only.
LEMMA ServiceFrame ==
  ASSUME IInv, NEW w \in Workers, RunConverterWorker(w)
  PROVE  /\ conversion' = conversion /\ conversion[w] \in Conversions /\ at[w] # "idle"
         /\ \A v \in Workers \ {w} : at'[v] = at[v] /\ result'[v] = result[v]
         /\ \A h : h[1] # conversion[w] =>
              (h \in ours' <=> h \in ours) /\ (h \in inheritable' <=> h \in inheritable)
         /\ UNCHANGED <<success, output>>
<1>1. at[w] # "idle" /\ conversion[w] \in Conversions
  BY DEF IInv, TypeOK, RunConverterWorker, CreatePipes, ProtectPipes, CreateProcess,
         CreateProcessFails, CloseChildEnds, SendRequest, SendRequestFails, WaitEnds,
         WaitTimesOut, ReadOutput, CheckResponse
<1>2. conversion' = conversion /\ UNCHANGED <<success, output>>
  BY DEF RunConverterWorker, CreatePipes, ProtectPipes, CreateProcess, CreateProcessFails,
         CloseChildEnds, SendRequest, SendRequestFails, WaitEnds, WaitTimesOut, ReadOutput,
         CheckResponse, childVars
<1>3. /\ \A v \in Workers \ {w} : at'[v] = at[v] /\ result'[v] = result[v]
      /\ \A h : h[1] # conversion[w] =>
           (h \in ours' <=> h \in ours) /\ (h \in inheritable' <=> h \in inheritable)
  <2>1. CASE CreatePipes(w) \/ ProtectPipes(w)
    BY <2>1 DEF IInv, TypeOK, CreatePipes, ProtectPipes, Return, Goto, Handles, pipeVars
  <2>2. CASE CreateProcess(w) \/ CreateProcessFails(w) \/ CloseChildEnds(w)
    BY <2>2 DEF IInv, TypeOK, CreateProcess, CreateProcessFails, CloseChildEnds, Return, Goto,
                Close, Handles, pipeVars
  <2>3. CASE SendRequest(w) \/ SendRequestFails(w) \/ WaitTimesOut(w)
    BY <2>3 DEF IInv, TypeOK, SendRequest, SendRequestFails, WaitTimesOut, Return, Goto, Close,
                Handles, Handle
  <2>4. CASE WaitEnds(w) \/ ReadOutput(w) \/ CheckResponse(w)
    BY <2>4 DEF IInv, TypeOK, WaitEnds, ReadOutput, CheckResponse, Return, Goto, Close, Handles,
                pipeVars
  <2> QED
    BY <2>1, <2>2, <2>3, <2>4 DEF RunConverterWorker
<1> QED
  BY <1>1, <1>2, <1>3

\* A converter changes nothing of the service's.
LEMMA ConverterFrame ==
  ASSUME NEW c \in Conversions, Converter(c) \/ Die(c)
  PROVE  /\ UNCHANGED <<at, conversion, ours, inheritable, doomed, result>>
         /\ Alive(c)
  BY DEF Converter, ReadRequest, Convert, Block, Exit, ExitOnError, Die, Ends, Alive, pipeVars

\* What Start chooses.
LEMMA StartFrame ==
  ASSUME IInv, NEW w \in Workers, Start(w)
  PROVE  \E c \in Conversions :
           /\ ~Alive(c) /\ \A v \in Workers \ {w} : conversion[v] # c
           /\ \A end \in AllEnds : Handle(c, end) \notin ours
           /\ at[w] = "idle" /\ at' = [at EXCEPT ![w] = "pipes"]
           /\ conversion' = [conversion EXCEPT ![w] = c]
           /\ converter' = [converter EXCEPT ![c] = "none"]
           /\ doomed' = doomed \ {c}
           /\ success' = [success EXCEPT ![c] = FALSE]
           /\ \E file : output' = [output EXCEPT ![c] = file]
           /\ result' = [result EXCEPT ![w] = "none"]
           /\ UNCHANGED <<ours, inheritable, theirs>>
  BY DEF Start, Unused, HasWriter, Goto, AllEnds, pipeVars

-----------------------------------------------------------------------------
(* The conjuncts of the invariant, one by one                              *)

LEMMA StepOwn == IInv /\ [Next]_vars => OwnConversion'
<1> SUFFICES ASSUME IInv, [Next]_vars PROVE OwnConversion'
  OBVIOUS
<1>1. ASSUME NEW w \in Workers, Start(w) PROVE OwnConversion'
  BY <1>1, StartFrame DEF IInv, TypeOK, OwnConversion
<1>2. ASSUME NEW w \in Workers, RunConverterWorker(w) PROVE OwnConversion'
  BY <1>2, ServiceFrame DEF IInv, OwnConversion
<1>3. ASSUME NEW c \in Conversions, Converter(c) \/ Die(c) PROVE OwnConversion'
  BY <1>3, ConverterFrame DEF IInv, OwnConversion
<1>4. CASE UNCHANGED vars
  BY <1>4 DEF vars, IInv, OwnConversion
<1> QED
  BY <1>1, <1>2, <1>3, <1>4 DEF Next

LEMMA StepProcess == IInv /\ [Next]_vars => ProcessOK'
<1> SUFFICES ASSUME IInv, [Next]_vars PROVE ProcessOK'
  OBVIOUS
<1>1. ASSUME NEW w \in Workers, Start(w) PROVE ProcessOK'
  <2>1. PICK c \in Conversions :
          /\ ~Alive(c) /\ \A v \in Workers \ {w} : conversion[v] # c
          /\ at[w] = "idle" /\ at' = [at EXCEPT ![w] = "pipes"]
          /\ conversion' = [conversion EXCEPT ![w] = c]
          /\ converter' = [converter EXCEPT ![c] = "none"]
          /\ doomed' = doomed \ {c}
    BY <1>1, StartFrame
  <2>2. ASSUME NEW d \in Conversions, Alive(d)' PROVE WillEnd(d)'
    <3>1. d # c /\ Alive(d)
      BY <2>1, <2>2 DEF IInv, TypeOK, Alive
    <3>2. WillEnd(d)
      BY <3>1 DEF IInv, ProcessOK
    <3> QED
      BY <2>1, <3>1, <3>2 DEF IInv, TypeOK, WillEnd
  <2>3. ASSUME NEW v \in Workers
        PROVE  /\ at'[v] # "idle" => conversion'[v] \notin doomed'
               /\ at'[v] \in {"drain", "check"} => ~Alive(conversion[v])'
    BY <2>1 DEF IInv, TypeOK, ProcessOK, Alive
  <2> QED
    BY <2>2, <2>3 DEF ProcessOK
<1>2. ASSUME NEW w \in Workers, RunConverterWorker(w) PROVE ProcessOK'
  <2> DEFINE c == conversion[w]
  <2>1. /\ conversion' = conversion /\ c \in Conversions /\ at[w] # "idle" /\ c \notin doomed
        /\ \A v \in Workers \ {w} : at'[v] = at[v] /\ conversion[v] # c
    BY <1>2, ServiceFrame DEF IInv, TypeOK, OwnConversion, ProcessOK
  <2>2. CASE /\ at[w] \in {"pipes", "protect"} \/ CreateProcessFails(w)
             /\ UNCHANGED childVars /\ at'[w] \in {"idle", "protect", "spawn"}
    <3>1. ~Alive(c)
      BY <2>2 DEF CreateProcessFails, IInv, TypeOK, Alive
    <3>2. ASSUME NEW d \in Conversions, Alive(d)' PROVE WillEnd(d)'
      <4>1. Alive(d) /\ d # c
        BY <2>2, <3>1, <3>2 DEF Alive, childVars
      <4>2. WillEnd(d)
        BY <4>1 DEF IInv, ProcessOK
      <4> QED
        BY <2>1, <2>2, <4>1, <4>2 DEF WillEnd, childVars
    <3> QED
      BY <2>1, <2>2, <3>2 DEF IInv, ProcessOK, Alive, childVars
  <2>3. CASE CreateProcess(w)
    <3>1. ASSUME NEW d \in Conversions, Alive(d)' PROVE WillEnd(d)'
      <4>1. CASE d = c
        BY <2>1, <2>3, <4>1 DEF IInv, TypeOK, CreateProcess, Goto, WillEnd
      <4>2. CASE d # c
        <5>1. Alive(d)
          BY <2>3, <3>1, <4>2 DEF IInv, TypeOK, CreateProcess, Alive
        <5> QED
          BY <2>1, <2>3, <4>2, <5>1 DEF CreateProcess, IInv, ProcessOK, WillEnd
      <4> QED
        BY <4>1, <4>2
    <3>2. ASSUME NEW v \in Workers
          PROVE  /\ at'[v] # "idle" => conversion'[v] \notin doomed'
                 /\ at'[v] \in {"drain", "check"} => ~Alive(conversion[v])'
      BY <2>1, <2>3 DEF IInv, TypeOK, CreateProcess, Goto, ProcessOK, Alive
    <3> QED
      BY <3>1, <3>2 DEF ProcessOK
  <2>4. CASE /\ UNCHANGED childVars /\ at[w] \in {"close", "request"}
             /\ at'[w] \in {"request", "wait"}
    BY <2>1, <2>4 DEF IInv, ProcessOK, WillEnd, Alive, childVars
  <2>5. CASE SendRequestFails(w) \/ WaitTimesOut(w)
    <3>1. /\ doomed' = doomed \cup {c} /\ at'[w] = "idle" /\ converter' = converter
      BY <2>5 DEF IInv, TypeOK, SendRequestFails, WaitTimesOut, Terminate, Return, Goto
    <3>2. \A d \in Conversions : Alive(d)' => WillEnd(d)'
      BY <2>1, <3>1 DEF IInv, ProcessOK, WillEnd, Alive
    <3> QED
      BY <2>1, <3>1, <3>2 DEF IInv, TypeOK, ProcessOK, Alive
  <2>6. CASE /\ at[w] \in {"wait", "drain", "check"} /\ ~Alive(c)
             /\ UNCHANGED childVars /\ at'[w] \in {"drain", "check", "idle"}
    <3>1. \A d \in Conversions : Alive(d)' => WillEnd(d)'
      BY <2>1, <2>6 DEF IInv, ProcessOK, WillEnd, Alive, childVars
    <3> QED
      BY <2>1, <2>6, <3>1 DEF IInv, TypeOK, ProcessOK, Alive, childVars
  <2>7. CASE CreatePipes(w) \/ ProtectPipes(w) \/ CreateProcessFails(w)
    BY <2>7, <2>2 DEF IInv, TypeOK, CreatePipes, ProtectPipes, CreateProcessFails, Return, Goto
  <2>8. CASE CloseChildEnds(w) \/ SendRequest(w)
    BY <2>8, <2>4 DEF IInv, TypeOK, CloseChildEnds, SendRequest, Goto
  <2>9. CASE WaitEnds(w) \/ ReadOutput(w) \/ CheckResponse(w)
    BY <2>9, <2>6 DEF IInv, TypeOK, ProcessOK, WaitEnds, ReadOutput, CheckResponse, Return, Goto
  <2> QED
    BY <1>2, <2>3, <2>5, <2>7, <2>8, <2>9 DEF RunConverterWorker
<1>3. ASSUME NEW c \in Conversions, Converter(c) \/ Die(c) PROVE ProcessOK'
  <2>1. UNCHANGED <<at, conversion, doomed>> /\ \A d \in Conversions : Alive(d)' => Alive(d)
    BY <1>3 DEF IInv, TypeOK, Converter, ReadRequest, Convert, Block, Exit, ExitOnError, Die,
       Ends, Alive
  <2> QED
    BY <2>1 DEF IInv, TypeOK, ProcessOK, WillEnd
<1>4. CASE UNCHANGED vars
  BY <1>4 DEF vars, childVars, IInv, ProcessOK, WillEnd, Alive
<1> QED
  BY <1>1, <1>2, <1>3, <1>4 DEF Next

\* Each step opens and closes handles of its own conversion only, and every way to return
\* has closed all that are open by then.
LEMMA StepHandles == IInv /\ [Next]_vars => \A w \in Workers : HandlesOK(w)'
<1> SUFFICES ASSUME IInv, [Next]_vars, NEW v \in Workers PROVE HandlesOK(v)'
  OBVIOUS
<1> USE DEF HandlesOK, Handles, Handle
<1>1. ASSUME NEW w \in Workers, Start(w) PROVE HandlesOK(v)'
  <2>1. CASE v = w
    <3>1. /\ at'[v] = "pipes" /\ UNCHANGED <<ours, inheritable>>
          /\ \A end \in AllEnds : <<conversion'[v], end>> \notin ours
      BY <1>1, <2>1, StartFrame DEF IInv, TypeOK
    <3>2. ({conversion'[v]} \X AllEnds) \cap ours' = {}
      BY <3>1
    <3>3. <<conversion'[v], "stdin_write">> \notin inheritable'
      BY <3>1 DEF IInv, TypeOK, AllEnds, OurEnds
    <3> QED
      BY <3>1, <3>2, <3>3
  <2>2. CASE v # w
    BY <1>1, <2>2, StartFrame DEF IInv, TypeOK
  <2> QED
    BY <2>1, <2>2
<1>2. ASSUME NEW w \in Workers, RunConverterWorker(w) PROVE HandlesOK(v)'
  <2>1. CASE v = w
    <3>1. CASE CreatePipes(w)
      BY <2>1, <3>1 DEF IInv, TypeOK, CreatePipes, Return, Goto, pipeVars, AllEnds
    <3>2. CASE ProtectPipes(w)
      BY <2>1, <3>2 DEF IInv, TypeOK, ProtectPipes, Goto, ChildEnds, OurEnds
    <3>3. CASE CreateProcess(w)
      BY <2>1, <3>3 DEF IInv, TypeOK, CreateProcess, Goto, pipeVars
    <3>4. CASE CreateProcessFails(w)
      BY <2>1, <3>4 DEF IInv, TypeOK, CreateProcessFails, Return, Goto, Close, AllEnds, OurEnds
    <3>5. CASE CloseChildEnds(w)
      BY <2>1, <3>5 DEF IInv, TypeOK, CloseChildEnds, Goto, Close
    <3>6. CASE SendRequest(w)
      <4>1. /\ at[w] = "request" /\ at'[w] = "wait" /\ conversion' = conversion
            /\ ours' = ours \ {<<conversion[w], "stdin_write">>}
            /\ inheritable' = inheritable \ {<<conversion[w], "stdin_write">>}
        BY <3>6 DEF IInv, TypeOK, SendRequest, Goto, Close
      <4>2. ({conversion[w]} \X ChildEnds) \cap ours = {}
        BY <4>1 DEF IInv
      <4> QED
        BY <2>1, <4>1, <4>2
    <3>7. CASE SendRequestFails(w) \/ WaitTimesOut(w) \/ ReadOutput(w)
      <4>1. /\ at[w] \in {"request", "wait", "drain"} /\ at'[w] \in {"idle", "check"}
            /\ Close(Handles(conversion[w], OurEnds)) /\ conversion' = conversion
        BY <3>7 DEF IInv, TypeOK, SendRequestFails, WaitTimesOut, ReadOutput, Return, Goto
      <4> QED
        BY <2>1, <4>1 DEF IInv, Close, AllEnds, OurEnds
    <3>8. CASE WaitEnds(w) \/ CheckResponse(w)
      BY <2>1, <3>8 DEF IInv, TypeOK, WaitEnds, CheckResponse, Return, Goto, pipeVars, AllEnds
    <3> QED
      BY <1>2, <3>1, <3>2, <3>3, <3>4, <3>5, <3>6, <3>7, <3>8 DEF RunConverterWorker
  <2>2. CASE v # w
    <3>1. /\ conversion'[v] = conversion[v] /\ conversion[v] # conversion[w] /\ at'[v] = at[v]
      BY <1>2, <2>2, ServiceFrame DEF IInv, TypeOK, OwnConversion
    <3>2. \A end \in AllEnds :
            /\ <<conversion[v], end>> \in ours' <=> <<conversion[v], end>> \in ours
            /\ <<conversion[v], end>> \in inheritable' <=> <<conversion[v], end>> \in inheritable
      <4>1. \A h : h[1] # conversion[w] =>
              (h \in ours' <=> h \in ours) /\ (h \in inheritable' <=> h \in inheritable)
        BY <1>2, ServiceFrame
      <4> QED
        BY <3>1, <4>1
    <3>3. HandlesOK(v)
      BY DEF IInv
    <3> QED
      BY <3>1, <3>2, <3>3 DEF AllEnds, ChildEnds, OurEnds
  <2> QED
    BY <2>1, <2>2
<1>3. ASSUME NEW c \in Conversions, Converter(c) \/ Die(c) PROVE HandlesOK(v)'
  BY <1>3, ConverterFrame DEF IInv
<1>4. CASE UNCHANGED vars
  BY <1>4 DEF IInv, vars, pipeVars
<1> QED
  BY <1>1, <1>2, <1>3, <1>4 DEF Next

\* A process gets its handles at CreateProcess, and has none when it has ended.
LEMMA StepProcessHandles == IInv /\ [Next]_vars => \A c \in Conversions : ProcessHandlesOK(c)'
<1> SUFFICES ASSUME IInv, [Next]_vars, NEW d \in Conversions PROVE ProcessHandlesOK(d)'
  OBVIOUS
<1>1. ASSUME NEW w \in Workers, Start(w) PROVE ProcessHandlesOK(d)'
  BY <1>1, StartFrame DEF IInv, TypeOK, ProcessHandlesOK, Alive, Handle
<1>2. ASSUME NEW w \in Workers, RunConverterWorker(w) PROVE ProcessHandlesOK(d)'
  <2>1. CASE CreateProcess(w)
    <3>1. /\ Handle(conversion[w], "stdin_read") \in inheritable
          /\ Handle(conversion[w], "stdin_write") \notin inheritable
      BY <2>1 DEF CreateProcess, IInv, HandlesOK, Handles, Handle, ChildEnds
    <3> QED
      BY <2>1, <3>1 DEF IInv, TypeOK, ProcessHandlesOK, Alive, CreateProcess, Handle
  <2>2. CASE UNCHANGED <<converter, theirs>>
    BY <2>2 DEF IInv, ProcessHandlesOK, Alive, Handle
  <2> QED
    BY <1>2, <2>1, <2>2
    DEF RunConverterWorker, CreatePipes, ProtectPipes, CreateProcessFails, CloseChildEnds,
        SendRequest, SendRequestFails, WaitEnds, WaitTimesOut, ReadOutput, CheckResponse,
        childVars
<1>3. ASSUME NEW c \in Conversions, Converter(c) \/ Die(c) PROVE ProcessHandlesOK(d)'
  BY <1>3 DEF IInv, TypeOK, ProcessHandlesOK, Alive, Converter, ReadRequest, Convert, Block,
              Exit, ExitOnError, Die, Ends, Handle
<1>4. CASE UNCHANGED vars
  BY <1>4 DEF IInv, ProcessHandlesOK, Alive, vars, childVars, Handle
<1> QED
  BY <1>1, <1>2, <1>3, <1>4 DEF Next

\* Only a process that has written its output says so.
LEMMA StepSays == IInv /\ [Next]_vars => \A c \in Conversions : SaysOK(c)'
<1> SUFFICES ASSUME IInv, [Next]_vars, NEW d \in Conversions PROVE SaysOK(d)'
  OBVIOUS
<1>1. ASSUME NEW w \in Workers, Start(w) PROVE SaysOK(d)'
  BY <1>1, StartFrame DEF IInv, TypeOK, SaysOK
<1>2. ASSUME NEW w \in Workers, RunConverterWorker(w) PROVE SaysOK(d)'
  <2>1. CASE CreateProcess(w)
    BY <2>1 DEF IInv, TypeOK, SaysOK, CreateProcess
  <2>2. CASE UNCHANGED <<converter, success, output>>
    BY <2>2 DEF IInv, SaysOK
  <2> QED
    BY <1>2, <2>1, <2>2
    DEF RunConverterWorker, CreatePipes, ProtectPipes, CreateProcessFails, CloseChildEnds,
        SendRequest, SendRequestFails, WaitEnds, WaitTimesOut, ReadOutput, CheckResponse,
        childVars
<1>3. ASSUME NEW c \in Conversions, Converter(c) \/ Die(c) PROVE SaysOK(d)'
  <2>1. CASE Convert(c)
    BY <2>1 DEF IInv, TypeOK, SaysOK, Convert
  <2>2. CASE ReadRequest(c) \/ Block(c)
    BY <2>2 DEF IInv, TypeOK, SaysOK, ReadRequest, Block
  <2>3. CASE Exit(c) \/ ExitOnError(c) \/ Die(c)
    BY <2>3 DEF IInv, TypeOK, SaysOK, Exit, ExitOnError, Die, Ends
  <2> QED
    BY <1>3, <2>1, <2>2, <2>3 DEF Converter
<1>4. CASE UNCHANGED vars
  BY <1>4 DEF IInv, SaysOK, vars, childVars
<1> QED
  BY <1>1, <1>2, <1>3, <1>4 DEF Next

\* A process that has ended writes no more.
LEMMA StepResult == IInv /\ [Next]_vars => \A w \in Workers : ResultOK(w)'
<1> SUFFICES ASSUME IInv, [Next]_vars, NEW v \in Workers PROVE ResultOK(v)'
  OBVIOUS
<1>1. ASSUME NEW w \in Workers, Start(w) PROVE ResultOK(v)'
  BY <1>1, StartFrame DEF IInv, TypeOK, ResultOK, Alive
<1>2. ASSUME NEW w \in Workers, RunConverterWorker(w) PROVE ResultOK(v)'
  <2>1. /\ conversion' = conversion /\ conversion[w] \in Conversions /\ at[w] # "idle"
        /\ \A u \in Workers \ {w} : at'[u] = at[u] /\ result'[u] = result[u]
        /\ UNCHANGED <<success, output>>
    BY <1>2, ServiceFrame
  <2>2. CASE CreateProcess(w)
    <3>1. v # w => conversion[v] # conversion[w]
      BY <2>1 DEF IInv, OwnConversion
    <3> QED
      BY <2>1, <2>2, <3>1 DEF IInv, TypeOK, ResultOK, Alive, CreateProcess, Goto
  <2>3. CASE converter' = converter /\ v # w
    BY <2>1, <2>3 DEF IInv, ResultOK, Alive
  <2>4. CASE CheckResponse(w) /\ v = w
    <3>1. ~Alive(conversion[w])
      BY <2>4 DEF CheckResponse, IInv, ProcessOK
    <3>2. success[conversion[w]] => output[conversion[w]] = "fresh"
      BY <2>1 DEF IInv, SaysOK
    <3> QED
      BY <2>1, <2>4, <3>1, <3>2
      DEF IInv, TypeOK, ResultOK, Alive, CheckResponse, Return, Goto, childVars
  <2>5. CASE ~CheckResponse(w) /\ v = w
    <3>1. result'[w] # "SUCCESS" /\ (at'[w] # "idle" => result'[w] = "none")
      BY <1>2, <2>1, <2>5
      DEF IInv, TypeOK, ResultOK, RunConverterWorker, CreatePipes, ProtectPipes, CreateProcess,
          CreateProcessFails, CloseChildEnds, SendRequest, SendRequestFails, WaitEnds,
          WaitTimesOut, ReadOutput, Return, Goto
    <3> QED
      BY <2>5, <3>1 DEF ResultOK
  <2>6. CreateProcess(w) \/ converter' = converter
    BY <1>2 DEF RunConverterWorker, CreatePipes, ProtectPipes, CreateProcessFails,
       CloseChildEnds, SendRequest, SendRequestFails, WaitEnds, WaitTimesOut, ReadOutput,
       CheckResponse, childVars
  <2> QED
    BY <2>2, <2>3, <2>4, <2>5, <2>6
<1>3. ASSUME NEW c \in Conversions, Converter(c) \/ Die(c) PROVE ResultOK(v)'
  <2>1. UNCHANGED <<at, conversion, result>> /\ Alive(c)
    BY <1>3, ConverterFrame
  <2>2. \A d \in Conversions : ~Alive(d) => ~Alive(d)' /\ output'[d] = output[d]
    BY <1>3, <2>1 DEF IInv, TypeOK, Converter, ReadRequest, Convert, Block, Exit, ExitOnError,
       Die, Ends, Alive
  <2> QED
    BY <2>1, <2>2 DEF IInv, TypeOK, ResultOK
<1>4. CASE UNCHANGED vars
  BY <1>4 DEF IInv, ResultOK, Alive, vars, childVars
<1> QED
  BY <1>1, <1>2, <1>3, <1>4 DEF Next

LEMMA StepTypes == IInv /\ [Next]_vars => TypeOK'
<1>1. CASE UNCHANGED vars
  BY <1>1 DEF IInv, TypeOK, vars, pipeVars, childVars
<1> QED
  BY <1>1, ServiceTypes, ConverterTypes DEF IInv, Next

\* IInv is an inductive invariant.
THEOREM Invariance == Spec => []IInv
<1>1. IInv /\ [Next]_vars => IInv'
  BY StepTypes, StepOwn, StepProcess, StepHandles, StepProcessHandles, StepSays, StepResult
  DEF IInv
<1> QED
  BY InitInv, <1>1, PTL DEF Spec

-----------------------------------------------------------------------------
(* The theorems about the properties of ConverterProcess                   *)

\* What the variables hold, for any number of workers and conversions.
THEOREM TypeCorrect == Spec => []TypeOK
<1>1. IInv => TypeOK
  BY DEF IInv
<1> QED
  BY Invariance, <1>1, PTL

\* No conversion is reported successful that has not written its output, whatever file an
\* earlier one has left there and however the process has ended.
THEOREM SuccessesAreFresh == Spec => []SuccessIsFresh
<1>1. IInv => SuccessIsFresh
  BY DEF IInv, ResultOK, SuccessIsFresh
<1> QED
  BY Invariance, <1>1, PTL

\* Every way to return from RunConverterWorker closes all six handles, and leaves no
\* process that runs and has not been told to end.
THEOREM ReturnsLeaveNothing == Spec => []NothingLeft
<1>1. IInv => NothingLeft
  <2> SUFFICES ASSUME IInv, NEW w \in Workers, at[w] = "idle"
               PROVE  /\ Handles(conversion[w], ChildEnds \cup OurEnds) \cap ours = {}
                      /\ conversion[w] # None =>
                           ~Alive(conversion[w]) \/ conversion[w] \in doomed
    BY DEF NothingLeft
  <2>1. Handles(conversion[w], ChildEnds \cup OurEnds) \cap ours = {}
    BY DEF IInv, HandlesOK, AllEnds
  <2>2. ASSUME conversion[w] # None, Alive(conversion[w]) PROVE conversion[w] \in doomed
    <3>1. conversion[w] \in Conversions
      BY <2>2 DEF IInv, TypeOK
    <3>2. WillEnd(conversion[w])
      BY <2>2, <3>1 DEF IInv, ProcessOK
    <3> QED
      BY <2>2, <3>2 DEF IInv, OwnConversion, WillEnd
  <2> QED
    BY <2>1, <2>2
<1> QED
  BY Invariance, <1>1, PTL

\* A process that runs will end, and is not that of a conversion that has seen its end.
LEMMA HoldersWillEnd ==
  ASSUME IInv, NEW w \in Workers, at[w] \in {"wait", "drain"}, NEW h,
         NEW c \in Conversions, h \in theirs[c]
  PROVE  /\ WillEnd(c)
         /\ at[w] = "drain" => c # conversion[w]
<1>1. Alive(c)
  BY DEF IInv, ProcessHandlesOK
<1> QED
  BY <1>1 DEF IInv, ProcessOK

\* What keeps a conversion from reading its output to the end will end without it, whatever
\* handles the processes have inherited of each other.
THEOREM DrainsEnd == Spec => []DrainEnds
<1>1. IInv => DrainEnds
  <2> SUFFICES ASSUME IInv, NEW w \in Workers, at[w] = "drain"
               PROVE  /\ Handles(conversion[w], {"stdout_write", "stderr_write"}) \cap ours = {}
                      /\ \A c \in OutputHolders(conversion[w]) : c # conversion[w] /\ WillEnd(c)
    BY DEF DrainEnds
  <2>1. Handles(conversion[w], {"stdout_write", "stderr_write"}) \cap ours = {}
    BY DEF IInv, HandlesOK, Handles, ChildEnds
  <2>2. \A c \in OutputHolders(conversion[w]) : c # conversion[w] /\ WillEnd(c)
    BY HoldersWillEnd DEF OutputHolders, Holders
  <2> QED
    BY <2>1, <2>2
<1> QED
  BY Invariance, <1>1, PTL

\* And what keeps a converter from reading its request to the end is neither the service nor
\* the converter itself.
THEOREM RequestsEnd == Spec => []RequestEnds
<1>1. IInv => RequestEnds
  <2> SUFFICES ASSUME IInv, NEW w \in Workers, at[w] \in {"wait", "drain"}
               PROVE  /\ Handle(conversion[w], "stdin_write") \notin ours
                      /\ \A c \in Holders(Handle(conversion[w], "stdin_write")) :
                           c # conversion[w] /\ WillEnd(c)
    BY DEF RequestEnds
  <2>1. Handle(conversion[w], "stdin_write") \notin ours
    BY DEF IInv, HandlesOK
  <2>2. ASSUME NEW c \in Conversions, Handle(conversion[w], "stdin_write") \in theirs[c]
        PROVE  c # conversion[w] /\ WillEnd(c)
    BY <2>2, HoldersWillEnd DEF IInv, ProcessHandlesOK
  <2> QED
    BY <2>1, <2>2 DEF Holders
<1> QED
  BY Invariance, <1>1, PTL

\* No process is given the ends that RunConverterWorker has closed in the service.
THEOREM HoldersOnlyLeave == Spec => HoldersShrink
<1> DEFINE Shrinks ==
      \A w \in Workers : at[w] \in {"request", "wait", "drain"} =>
        OutputHolders(conversion[w])' \subseteq OutputHolders(conversion[w])
<1>1. ASSUME IInv, [Next]_vars PROVE Shrinks
  <2> SUFFICES ASSUME NEW w \in Workers, at[w] \in {"request", "wait", "drain"}
               PROVE  OutputHolders(conversion[w])' \subseteq OutputHolders(conversion[w])
    OBVIOUS
  <2>1. /\ <<conversion[w], "stdout_write">> \notin inheritable
        /\ <<conversion[w], "stderr_write">> \notin inheritable
    <3>1. /\ <<conversion[w], "stdout_write">> \in Handles(conversion[w], ChildEnds)
          /\ <<conversion[w], "stderr_write">> \in Handles(conversion[w], ChildEnds)
      BY DEF Handles, ChildEnds
    <3>2. Handles(conversion[w], ChildEnds) \cap ours = {} /\ inheritable \subseteq ours
      BY <1>1 DEF IInv, TypeOK, HandlesOK
    <3> QED
      BY <3>1, <3>2
  <2>2. conversion'[w] = conversion[w]
    <3>1. ASSUME NEW v \in Workers, Start(v) PROVE conversion'[w] = conversion[w]
      BY <1>1, <3>1, StartFrame DEF IInv, TypeOK
    <3>2. ASSUME NEW v \in Workers, RunConverterWorker(v) PROVE conversion'[w] = conversion[w]
      BY <1>1, <3>2, ServiceFrame
    <3>3. ASSUME NEW c \in Conversions, Converter(c) \/ Die(c)
          PROVE  conversion'[w] = conversion[w]
      BY <3>3, ConverterFrame
    <3> QED
      BY <1>1, <3>1, <3>2, <3>3 DEF Next, vars
  <2>3. \A c \in Conversions : theirs'[c] \subseteq theirs[c] \/ theirs'[c] = inheritable
    <3>1. ASSUME NEW v \in Workers, Start(v) \/ RunConverterWorker(v), ~CreateProcess(v)
          PROVE  theirs' = theirs
      BY <3>1 DEF Start, RunConverterWorker, CreatePipes, ProtectPipes, CreateProcessFails,
         CloseChildEnds, SendRequest, SendRequestFails, WaitEnds, WaitTimesOut, ReadOutput,
         CheckResponse, childVars
    <3>2. ASSUME NEW v \in Workers, CreateProcess(v)
          PROVE  \A c \in Conversions : theirs'[c] = theirs[c] \/ theirs'[c] = inheritable
      BY <3>2, <1>1 DEF CreateProcess, IInv, TypeOK
    <3>3. ASSUME NEW d \in Conversions, Converter(d) \/ Die(d)
          PROVE  \A c \in Conversions : theirs'[c] \subseteq theirs[c]
      BY <3>3, <1>1 DEF Converter, ReadRequest, Convert, Block, Exit, ExitOnError, Die, Ends,
         IInv, TypeOK
    <3> QED
      BY <1>1, <3>1, <3>2, <3>3 DEF Next, vars, childVars
  <2> QED
    BY <2>1, <2>2, <2>3 DEF OutputHolders, Holders, Handle
<1>2. IInv /\ [Next]_vars => [Shrinks]_vars
  BY <1>1
<1> QED
  BY Invariance, <1>2, PTL DEF Spec, HoldersShrink, Shrinks

-----------------------------------------------------------------------------
(* RunConverterWorker implements a call                                    *)

Busy == {w \in Workers : at[w] # "idle"}
Lingering == {c \in doomed : Alive(c)}

\* A step of the service is the begin or the end of a call, or none.
LEMMA ServiceImplementsCall ==
  ASSUME IInv, IInv', NEW w \in Workers, Start(w) \/ RunConverterWorker(w)
  PROVE  [Call!Next]_(Call!vars)
<1> DEFINE c == conversion[w]
<1>1. CASE Start(w)
  <2>1. PICK d \in Unused(w), file \in {"none", "stale"} :
          /\ conversion' = [conversion EXCEPT ![w] = d]
          /\ converter' = [converter EXCEPT ![d] = "none"]
          /\ doomed' = doomed \ {d}
          /\ output' = [output EXCEPT ![d] = file]
    BY <1>1 DEF Start
  <2>2. /\ d \in Conversions /\ ~Alive(d) /\ \A v \in Workers \ {w} : conversion[v] # d
        /\ at[w] = "idle" /\ at' = [at EXCEPT ![w] = "pipes"]
        /\ result' = [result EXCEPT ![w] = "none"]
    BY <1>1, <2>1 DEF Start, Unused, Goto
  <2>3. Busy' = Busy \cup {w}
    BY <2>2 DEF IInv, TypeOK, Busy
  <2>4. Lingering' = Lingering
    BY <2>1, <2>2 DEF IInv, TypeOK, Lingering, Alive
  <2>5. d \in Conversions \ Lingering
    BY <2>2 DEF Lingering
  <2> QED
    BY <2>1, <2>2, <2>3, <2>4, <2>5 DEF Call!Next, Call!Begin, Busy, Lingering
<1>2. CASE RunConverterWorker(w) /\ at'[w] # "idle"
  <2>1. Busy' = Busy /\ UNCHANGED <<conversion, output>> /\ at[w] # "idle"
    BY <1>2, ServiceFrame DEF Busy
  <2>2. result' = result
    BY <1>2, <2>1 DEF RunConverterWorker, CreatePipes, ProtectPipes, CreateProcess,
       CreateProcessFails, CloseChildEnds, SendRequest, SendRequestFails, WaitEnds,
       WaitTimesOut, ReadOutput, CheckResponse, Return, Goto, IInv, TypeOK
  <2>3. Lingering' = Lingering
    <3>1. CASE CreateProcess(w)
      <4>1. c \notin doomed
        BY <2>1 DEF IInv, ProcessOK
      <4> QED
        BY <3>1, <4>1 DEF IInv, TypeOK, CreateProcess, Lingering, Alive
    <3>2. CASE UNCHANGED <<converter, doomed>>
      BY <3>2 DEF Lingering, Alive
    <3> QED
      BY <1>2, <3>1, <3>2
      DEF RunConverterWorker, CreatePipes, ProtectPipes, CreateProcessFails, CloseChildEnds,
          SendRequest, SendRequestFails, WaitEnds, WaitTimesOut, ReadOutput, CheckResponse,
          Return, Goto, childVars, IInv, TypeOK
  <2> QED
    BY <2>1, <2>2, <2>3 DEF Call!vars, Busy, Lingering
<1>3. CASE RunConverterWorker(w) /\ at'[w] = "idle"
  <2>1. /\ UNCHANGED <<conversion, output>> /\ w \in Busy /\ c \in Conversions
        /\ Busy' = Busy \ {w}
    BY <1>3, ServiceFrame DEF Busy
  <2>2. CASE WaitTimesOut(w)
    <3>1. Lingering' = Lingering \cup {c} /\ result' = [result EXCEPT ![w] = "TIMEOUT"]
      BY <2>2 DEF WaitTimesOut, Terminate, Return, Lingering, Alive
    <3> QED
      BY <2>1, <3>1 DEF Call!Next, Call!TimeOut, Busy, Lingering
  <2>3. CASE SendRequestFails(w)
    <3>1. ~Alive(c)
      BY <2>1, <2>3 DEF SendRequestFails, Holders, IInv, ProcessHandlesOK
    <3>2. /\ Lingering' = Lingering
          /\ result' = [result EXCEPT ![w] = "MODEL_CONVERSION_FAILED"]
      BY <2>3, <3>1 DEF SendRequestFails, Terminate, Return, Lingering, Alive
    <3> QED
      BY <2>1, <3>2 DEF Call!Next, Call!Fail, Busy, Lingering
  <2>4. CASE CheckResponse(w)
    <3>1. Lingering' = Lingering
      BY <2>4 DEF CheckResponse, Lingering, Alive, childVars
    <3>2. success[c] => output[c] = "fresh"
      BY <2>1 DEF IInv, SaysOK
    <3>3. CASE result' = [result EXCEPT ![w] = "SUCCESS"] /\ success[c]
      BY <2>1, <3>1, <3>2, <3>3 DEF Call!Next, Call!Succeed, Busy, Lingering
    <3>4. CASE result' = [result EXCEPT ![w] = "MODEL_CONVERSION_FAILED"]
      BY <2>1, <3>1, <3>4 DEF Call!Next, Call!Fail, Busy, Lingering
    <3> QED
      BY <2>4, <3>3, <3>4 DEF CheckResponse, Return
  <2>5. CASE CreatePipes(w) \/ CreateProcessFails(w)
    <3>1. Lingering' = Lingering
      BY <2>5 DEF CreatePipes, CreateProcessFails, Lingering, Alive, childVars
    <3>2. result' = [result EXCEPT ![w] = "MODEL_CONVERSION_FAILED"]
      BY <1>3, <2>1, <2>5 DEF CreatePipes, CreateProcessFails, Return, Goto, IInv, TypeOK
    <3> QED
      BY <2>1, <3>1, <3>2 DEF Call!Next, Call!Fail, Busy, Lingering
  <2> QED
    BY <1>3, <2>2, <2>3, <2>4, <2>5
    DEF RunConverterWorker, ProtectPipes, CreateProcess, CloseChildEnds, SendRequest, WaitEnds,
        ReadOutput, Goto, IInv, TypeOK
<1> QED
  BY <1>1, <1>2, <1>3

\* A step of a converter writes the file of a call that runs or has timed out, ends a process
\* that has, or is none of the call's business.
LEMMA ProcessImplementsCall ==
  ASSUME IInv, NEW c \in Conversions, Converter(c) \/ Die(c)
  PROVE  [Call!Next]_(Call!vars)
<1>1. /\ UNCHANGED <<at, conversion, doomed, result>> /\ Alive(c)
      /\ Busy' = Busy
  BY ConverterFrame DEF Busy
<1>2. CASE ReadRequest(c) \/ Block(c)
  <2>1. Lingering' = Lingering /\ output' = output
    BY <1>1, <1>2 DEF IInv, TypeOK, ReadRequest, Block, Lingering, Alive
  <2> QED
    BY <1>1, <2>1 DEF Call!vars, Busy, Lingering
<1>3. CASE Convert(c)
  <2>1. Lingering' = Lingering
    BY <1>1, <1>3 DEF IInv, TypeOK, Convert, Lingering, Alive
  <2>2. c \in Lingering \/ \E w \in Busy : conversion[w] = c
    BY <1>1 DEF IInv, ProcessOK, WillEnd, Busy, Lingering
  <2>3. output' = output \/ \E file \in {"torn", "fresh"} : output' = [output EXCEPT ![c] = file]
    BY <1>3 DEF Convert, IInv, TypeOK
  <2> QED
    BY <1>1, <2>1, <2>2, <2>3 DEF Call!Next, Call!Write, Call!vars, Busy, Lingering
<1>4. CASE Exit(c) \/ ExitOnError(c) \/ Die(c)
  <2>1. output' = output /\ converter' = [converter EXCEPT ![c] = "ended"]
    BY <1>4 DEF Exit, ExitOnError, Die, Ends
  <2>2. Lingering' = Lingering \ {c}
    BY <1>1, <2>1 DEF IInv, TypeOK, Lingering, Alive
  <2>3. CASE c \in Lingering
    BY <1>1, <2>1, <2>2, <2>3 DEF Call!Next, Call!Gone, Busy, Lingering
  <2>4. CASE c \notin Lingering
    BY <1>1, <2>1, <2>2, <2>4 DEF Call!vars, Busy, Lingering
  <2> QED
    BY <2>3, <2>4
<1> QED
  BY <1>2, <1>3, <1>4 DEF Converter

\* The conversions of ConverterProcess are calls: whatever the processes do, what the service
\* sees is a file that changes only while its call runs or its timed-out converter lives on.
THEOREM ConversionsAreCalls == Spec => ImplementsCall
<1>1. Init => Call!Init
  BY DEF Init, Call!Init, Alive
<1>2. IInv /\ IInv' /\ [Next]_vars => [Call!Next]_(Call!vars)
  <2>1. CASE UNCHANGED vars
    BY <2>1 DEF vars, childVars, Call!vars, Alive
  <2> QED
    BY <2>1, ServiceImplementsCall, ProcessImplementsCall DEF Next
<1> QED
  BY Invariance, <1>1, <1>2, PTL DEF Spec, ImplementsCall, Call!Spec

=============================================================================
