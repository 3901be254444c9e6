-------------------------- MODULE ConverterProcess --------------------------
(***************************************************************************)
(* RuntimeState::RunConverterWorker (runtime/service/runtime_state.cpp) and *)
(* the Python process it starts (tools/converter_worker/worker.py), for    *)
(* several worker threads of the service that convert at the same time.    *)
(*                                                                         *)
(* The pipes of a conversion are handles in the service. CreateProcess     *)
(* passes on every handle of the service that is inheritable at that       *)
(* moment, those of other conversions included, and a pipe ends for its    *)
(* reader when no process holds a write end of it.                         *)
(*                                                                         *)
(* TerminateProcess asks for the end of a process and does not wait for    *)
(* it: RunConverterWorker returns while the converter may still run, hold  *)
(* handles and write its file. A conversion, its process and its pipes have *)
(* therefore a name of their own, and the worker thread can be at its next *)
(* conversion while the process of the last one lives.                     *)
(***************************************************************************)
EXTENDS FiniteSets

CONSTANTS
  Workers,      \* worker threads of the service
  Conversions,  \* names of conversions: as many as may have a process or handles at a time
  None          \* no conversion

ASSUME ConverterAssumption == None \notin Conversions

VARIABLES
  at,           \* per worker: the next step of RunConverterWorker
  conversion,   \* per worker: the conversion in hand, or the last one
  ours,         \* handles open in the service
  inheritable,  \* those a new process will get
  converter,    \* per conversion: what its process is doing
  doomed,       \* conversions whose process has been told to end
  theirs,       \* per conversion: handles open in its process
  success,      \* per conversion: its process says "success": true
  exitCode,     \* per conversion: the exit code of its process
  output,       \* per conversion: the file at output_path
  result        \* per worker: the last return value of RunConverterWorker

pipeVars == <<ours, inheritable>>
childVars == <<converter, doomed, theirs, success, exitCode, output>>
vars == <<at, conversion, pipeVars, childVars, result>>

ChildEnds == {"stdin_read", "stdout_write", "stderr_write"}
OurEnds == {"stdin_write", "stdout_read", "stderr_read"}
Handles(c, ends) == {c} \X ends
Handle(c, end) == <<c, end>>

Alive(c) == converter[c] \in {"reading", "converting", "reporting", "blocked"}

\* The conversions whose process can still write to the pipe.
Holders(h) == {c \in Conversions : h \in theirs[c]}

\* Someone, the service or a converter, can.
HasWriter(h) == h \in ours \/ Holders(h) # {}

Init ==
  /\ at = [w \in Workers |-> "idle"]
  /\ conversion = [w \in Workers |-> None]
  /\ ours = {} /\ inheritable = {}
  /\ converter = [c \in Conversions |-> "none"]
  /\ doomed = {}
  /\ theirs = [c \in Conversions |-> {}]
  /\ success = [c \in Conversions |-> FALSE]
  /\ exitCode = [c \in Conversions |-> 0]
  /\ output = [c \in Conversions |-> "none"]
  /\ result = [w \in Workers |-> "none"]

-----------------------------------------------------------------------------
(* RunConverterWorker, in a worker thread of the service                   *)

Goto(w, step) == at' = [at EXCEPT ![w] = step]

Close(handles) ==
  /\ ours' = ours \ handles
  /\ inheritable' = inheritable \ handles

Return(w, code) ==
  /\ Goto(w, "idle")
  /\ result' = [result EXCEPT ![w] = code]

\* A name for a new conversion of w: that of its last one, or of one that is over, once
\* its process has ended and nobody holds its pipes.
Unused(w) ==
  {c \in Conversions :
     /\ ~Alive(c)
     /\ \A v \in Workers \ {w} : conversion[v] # c
     /\ \A end \in ChildEnds \cup OurEnds : ~HasWriter(Handle(c, end))}

\* Mutated form: `pi` is that of the previous conversion.
StartWithOldProcess(w) ==
  /\ at[w] = "idle"
  /\ Goto(w, "pipes")
  /\ \E c \in Unused(w) : conversion' = [conversion EXCEPT ![w] = c]
  /\ result' = [result EXCEPT ![w] = "none"]
  /\ UNCHANGED <<pipeVars, childVars>>

\* output_path may hold the file of an earlier conversion, complete or torn.
Start(w) ==
  /\ at[w] = "idle"
  /\ Goto(w, "pipes")
  /\ \E c \in Unused(w), file \in {"none", "stale"} :
       /\ conversion' = [conversion EXCEPT ![w] = c]
       /\ converter' = [converter EXCEPT ![c] = "none"]
       /\ doomed' = doomed \ {c}
       /\ success' = [success EXCEPT ![c] = FALSE]
       /\ exitCode' = [exitCode EXCEPT ![c] = 0]
       /\ output' = [output EXCEPT ![c] = file]
  /\ result' = [result EXCEPT ![w] = "none"]
  /\ UNCHANGED <<pipeVars, theirs>>

\* Each of the three CreatePipe may fail; the pipes made before are closed then.
CreatePipes(w) ==
  /\ at[w] = "pipes"
  /\ \/ /\ ours' = ours \cup Handles(conversion[w], ChildEnds \cup OurEnds)
        /\ inheritable' = inheritable \cup Handles(conversion[w], ChildEnds \cup OurEnds)
        /\ Goto(w, "protect")
        /\ UNCHANGED result
     \/ Return(w, "MODEL_CONVERSION_FAILED") /\ UNCHANGED pipeVars
  /\ UNCHANGED <<conversion, childVars>>

\* Mutated form: our end of stdin is not protected.
ProtectReadEnds(w) ==
  /\ at[w] = "protect"
  /\ inheritable' = inheritable \ Handles(conversion[w], {"stdout_read", "stderr_read"})
  /\ Goto(w, "spawn")
  /\ UNCHANGED <<conversion, ours, childVars, result>>

\* SetHandleInformation
ProtectPipes(w) ==
  /\ at[w] = "protect"
  /\ inheritable' = inheritable \ Handles(conversion[w], OurEnds)
  /\ Goto(w, "spawn")
  /\ UNCHANGED <<conversion, ours, childVars, result>>

CreateProcess(w) ==
  /\ at[w] = "spawn"
  /\ converter' = [converter EXCEPT ![conversion[w]] = "reading"]
  /\ theirs' = [theirs EXCEPT ![conversion[w]] = inheritable]
  /\ Goto(w, "close")
  /\ UNCHANGED <<conversion, pipeVars, doomed, success, exitCode, output, result>>

CreateProcessFails(w) ==
  /\ at[w] = "spawn"
  /\ Close(Handles(conversion[w], ChildEnds \cup OurEnds))
  /\ Return(w, "MODEL_CONVERSION_FAILED")
  /\ UNCHANGED <<conversion, childVars>>

\* Mutated form: the service keeps its copies of stdout_write and stderr_write.
KeepChildEnds(w) ==
  /\ at[w] = "close"
  /\ Close({Handle(conversion[w], "stdin_read")})
  /\ Goto(w, "request")
  /\ UNCHANGED <<conversion, childVars, result>>

CloseChildEnds(w) ==
  /\ at[w] = "close"
  /\ Close(Handles(conversion[w], ChildEnds))
  /\ Goto(w, "request")
  /\ UNCHANGED <<conversion, childVars, result>>

\* The request goes into the pipe, and closing our write end is to signal its end.
SendRequest(w) ==
  /\ at[w] = "request"
  /\ Close({Handle(conversion[w], "stdin_write")})
  /\ Goto(w, "wait")
  /\ UNCHANGED <<conversion, childVars, result>>

\* TerminateProcess returns at once; the process ends when the system gets to it.
Terminate(c) == doomed' = doomed \cup {c}

\* No process reads the pipe any more.
SendRequestFails(w) ==
  /\ at[w] = "request"
  /\ Holders(Handle(conversion[w], "stdin_read")) = {}
  /\ Close(Handles(conversion[w], OurEnds))
  /\ Terminate(conversion[w])
  /\ Return(w, "MODEL_CONVERSION_FAILED")
  /\ UNCHANGED <<conversion, converter, theirs, success, exitCode, output>>

WaitEnds(w) ==
  /\ at[w] = "wait"
  /\ ~Alive(conversion[w])
  /\ Goto(w, "drain")
  /\ UNCHANGED <<conversion, pipeVars, childVars, result>>

\* Mutated form: the wait has no timeout.
WaitForever(w) == FALSE /\ UNCHANGED vars

\* Mutated form: the process goes on after its timeout.
TimeoutLeavesProcess(w) ==
  /\ at[w] = "wait"
  /\ Alive(conversion[w])
  /\ Close(Handles(conversion[w], OurEnds))
  /\ Return(w, "TIMEOUT")
  /\ UNCHANGED <<conversion, childVars>>

\* 60 seconds have passed.
WaitTimesOut(w) ==
  /\ at[w] = "wait"
  /\ Alive(conversion[w])
  /\ Terminate(conversion[w])
  /\ Close(Handles(conversion[w], OurEnds))
  /\ Return(w, "TIMEOUT")
  /\ UNCHANGED <<conversion, converter, theirs, success, exitCode, output>>

\* stdout and then stderr are read to their ends, with no timeout.
ReadOutput(w) ==
  /\ at[w] = "drain"
  /\ ~HasWriter(Handle(conversion[w], "stdout_write"))
  /\ ~HasWriter(Handle(conversion[w], "stderr_write"))
  /\ Close(Handles(conversion[w], OurEnds))
  /\ Goto(w, "check")
  /\ UNCHANGED <<conversion, childVars, result>>

\* Mutated form: the converter's "success" is not looked for.
CheckFileOnly(w) ==
  /\ at[w] = "check"
  /\ LET c == conversion[w]
     IN  Return(w, IF exitCode[c] = 0 /\ output[c] # "none"
                   THEN "SUCCESS" ELSE "MODEL_CONVERSION_FAILED")
  /\ UNCHANGED <<conversion, pipeVars, childVars>>

CheckResponse(w) ==
  /\ at[w] = "check"
  /\ LET c == conversion[w]
     IN  Return(w, IF exitCode[c] = 0 /\ output[c] # "none" /\ success[c]
                   THEN "SUCCESS" ELSE "MODEL_CONVERSION_FAILED")
  /\ UNCHANGED <<conversion, pipeVars, childVars>>

RunConverterWorker(w) ==
  \/ CreatePipes(w) \/ ProtectPipes(w) \/ CreateProcess(w) \/ CreateProcessFails(w)
  \/ CloseChildEnds(w) \/ SendRequest(w) \/ SendRequestFails(w)
  \/ WaitEnds(w) \/ WaitTimesOut(w) \/ ReadOutput(w) \/ CheckResponse(w)

-----------------------------------------------------------------------------
(* The converter process: main and convert_model of worker.py. One that    *)
(* has been told to end goes on as any other until it does.                *)

\* sys.stdin.read() returns at the end of the pipe.
ReadRequest(c) ==
  /\ converter[c] = "reading"
  /\ ~HasWriter(Handle(c, "stdin_write"))
  /\ converter' = [converter EXCEPT ![c] = "converting"]
  /\ UNCHANGED <<at, conversion, pipeVars, doomed, theirs, success, exitCode, output, result>>

\* A ConversionResult; a failed one may have left a file, torn or complete.
Convert(c) ==
  /\ converter[c] = "converting"
  /\ converter' = [converter EXCEPT ![c] = "reporting"]
  /\ \/ success' = [success EXCEPT ![c] = TRUE] /\ output' = [output EXCEPT ![c] = "fresh"]
     \/ /\ UNCHANGED success
        /\ \E file \in {output[c], "torn", "fresh"} : output' = [output EXCEPT ![c] = file]
  /\ UNCHANGED <<at, conversion, pipeVars, doomed, theirs, exitCode, result>>

\* Log records or the response fill a pipe, which RunConverterWorker does not read
\* before the process has ended: the writer waits.
Block(c) ==
  /\ converter[c] \in {"converting", "reporting"}
  /\ converter' = [converter EXCEPT ![c] = "blocked"]
  /\ UNCHANGED <<at, conversion, pipeVars, doomed, theirs, success, exitCode, output, result>>

Ends(c) ==
  /\ converter' = [converter EXCEPT ![c] = "ended"]
  /\ theirs' = [theirs EXCEPT ![c] = {}]
  /\ UNCHANGED <<at, conversion, pipeVars, doomed, success, output, result>>

Exit(c) ==
  /\ converter[c] = "reporting"
  /\ Ends(c)
  /\ UNCHANGED exitCode

\* An exception, also one in reporting a conversion that went well.
ExitOnError(c) ==
  /\ Alive(c)
  /\ Ends(c)
  /\ exitCode' = [exitCode EXCEPT ![c] = 1]

Converter(c) ==
  ReadRequest(c) \/ Convert(c) \/ Block(c) \/ Exit(c) \/ ExitOnError(c)

\* The system ends a process that it has been told to end.
Die(c) ==
  /\ c \in doomed
  /\ Alive(c)
  /\ Ends(c)
  /\ exitCode' = [exitCode EXCEPT ![c] = 1]

-----------------------------------------------------------------------------
Next ==
  \/ \E w \in Workers : Start(w) \/ RunConverterWorker(w)
  \/ \E c \in Conversions : Converter(c) \/ Die(c)

Spec == Init /\ [][Next]_vars

\* The service's threads run, and so does its clock: a wait for a converter ends after 60
\* seconds. The system ends what was terminated. Nothing is asked of the converters.
FairSpec ==
  /\ Spec
  /\ \A w \in Workers : WF_vars(RunConverterWorker(w))
  /\ \A c \in Conversions : WF_vars(Die(c))

-----------------------------------------------------------------------------
(* Properties *)

\* What each variable holds. Until CreateProcess there is no process to wait for or
\* to terminate, and what a process would inherit is open.
TypeOK ==
  /\ at \in [Workers -> {"idle", "pipes", "protect", "spawn", "close", "request", "wait",
                         "drain", "check"}]
  /\ conversion \in [Workers -> Conversions \cup {None}]
  /\ \A w \in Workers : at[w] # "idle" => conversion[w] \in Conversions
  /\ ours \subseteq Conversions \X (ChildEnds \cup OurEnds) /\ inheritable \subseteq ours
  /\ converter \in [Conversions -> {"none", "reading", "converting", "reporting", "blocked",
                                    "ended"}]
  /\ \A w \in Workers : at[w] \in {"pipes", "protect", "spawn"} => converter[conversion[w]] = "none"
  /\ doomed \subseteq Conversions
  /\ theirs \in [Conversions -> SUBSET (Conversions \X (ChildEnds \cup OurEnds))]
  /\ success \in [Conversions -> BOOLEAN] /\ exitCode \in [Conversions -> {0, 1}]
  /\ output \in [Conversions -> {"none", "stale", "torn", "fresh"}]
  /\ result \in [Workers -> {"none", "SUCCESS", "MODEL_CONVERSION_FAILED", "TIMEOUT"}]

\* A conversion that is reported successful has written its output: the file an
\* earlier conversion left at output_path, complete or torn, is not taken for it.
SuccessIsFresh ==
  \A w \in Workers : result[w] = "SUCCESS" => output[conversion[w]] = "fresh"

\* RunConverterWorker has ten ways to return. After each, the service has closed the
\* six handles, and the converter process has ended or has been told to.
NothingLeft ==
  \A w \in Workers : at[w] = "idle" =>
    /\ Handles(conversion[w], ChildEnds \cup OurEnds) \cap ours = {}
    /\ conversion[w] # None => ~Alive(conversion[w]) \/ conversion[w] \in doomed

\* A process that will end without any step of the one who waits for it: it has been told
\* to, or its own conversion has yet to wait for it, and not longer than 60 seconds.
WillEnd(c) ==
  c \in doomed \/ \E w \in Workers : conversion[w] = c /\ at[w] \in {"close", "request", "wait"}

\* What ReadOutput waits for, with no timeout: the processes that can still write to
\* what a conversion reads.
OutputHolders(c) == Holders(Handle(c, "stdout_write")) \cup Holders(Handle(c, "stderr_write"))

\* Whoever keeps a conversion from reading its output to the end is the process of
\* another conversion, which has been terminated or is itself waited for with a time limit:
\* the service holds no write end. Two conversions whose converters hold each other's
\* pipes do not wait for each other.
DrainEnds ==
  \A w \in Workers : at[w] = "drain" =>
    /\ Handles(conversion[w], {"stdout_write", "stderr_write"}) \cap ours = {}
    /\ \A c \in OutputHolders(conversion[w]) : c # conversion[w] /\ WillEnd(c)

\* The same of the end of its request, which a converter waits for: when the service has
\* closed its write end, neither the service nor the converter itself holds another.
RequestEnds ==
  \A w \in Workers : at[w] \in {"wait", "drain"} =>
    /\ Handle(conversion[w], "stdin_write") \notin ours
    /\ \A c \in Holders(Handle(conversion[w], "stdin_write")) : c # conversion[w] /\ WillEnd(c)

\* Once the service has closed the child's ends of a conversion, no step of any
\* conversion gives them to one more process: those that hold them only get fewer.
HoldersShrink ==
  [][\A w \in Workers : at[w] \in {"request", "wait", "drain"} =>
       OutputHolders(conversion[w])' \subseteq OutputHolders(conversion[w])]_vars

\* The processes and pipes of RunConverterWorker implement a call: the file at an
\* output_path is not written to before its conversion has begun, nor after it has returned,
\* save by a process that was terminated for its timeout and is not gone yet.
Call == INSTANCE ConversionCall WITH
  call <- conversion,
  busy <- {w \in Workers : at[w] # "idle"},
  lingering <- {c \in doomed : Alive(c)}
ImplementsCall == Call!Spec

\* Every conversion returns, whatever converters do: also one that fills its pipes,
\* and one whose pipes another converter has inherited.
ConversionReturns == \A w \in Workers : at[w] = "pipes" ~> at[w] = "idle"

\* "Signal EOF": when the service has closed its write end, the converter can read
\* its request to the end.
EndOfRequestSignalled ==
  \A w \in Workers : at[w] = "wait" => ~HasWriter(Handle(conversion[w], "stdin_write"))

=============================================================================
