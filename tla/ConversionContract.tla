------------------------- MODULE ConversionContract -------------------------
(***************************************************************************)
(* What the service relies on when it has a model converted                *)
(* (ConverterProcess): a converter process writes to no file but its       *)
(* output, ends at any time with anything in it, and reports success only   *)
(* when the output is the valid ONNX form of its source.                    *)
(*                                                                         *)
(* Nothing is promised to a process whose source was edited, or whose      *)
(* output another process wrote to, while it ran: a disturbed one.         *)
(***************************************************************************)
CONSTANTS
  Workers, Paths, Outputs,
  Contents,          \* what files hold
  OnnxForm(_),       \* of a source
  NoJob

VARIABLES
  source,     \* per path: what it holds
  output,     \* per output: what it holds
  job,        \* per worker: the conversion it runs, or NoJob
  disturbed,  \* the workers whose files others use
  verdict     \* per worker: of its last conversion

vars == <<source, output, job, disturbed, verdict>>

\* checked: the output is, as for every conversion the service asks for.
Jobs == [path : Paths, output : Outputs, checked : BOOLEAN]

Init ==
  /\ source \in [Paths -> Contents] /\ output \in [Outputs -> Contents]
  /\ job = [w \in Workers |-> NoJob]
  /\ disturbed = {}
  /\ verdict = [w \in Workers |-> "none"]

Running == {w \in Workers : job[w] # NoJob}

Begin(w) == \E j \in Jobs :
  LET sharing == {v \in Running : job[v].output = j.output} IN
  /\ w \notin Running
  /\ job' = [job EXCEPT ![w] = j]
  /\ disturbed' = (disturbed \ {w}) \cup sharing \cup (IF sharing = {} THEN {} ELSE {w})
  /\ verdict' = [verdict EXCEPT ![w] = "none"]
  /\ UNCHANGED <<source, output>>

Write(w) ==
  /\ w \in Running
  /\ \E c \in Contents : output' = [output EXCEPT ![job[w].output] = c]
  /\ UNCHANGED <<source, job, disturbed, verdict>>

Succeed(w) ==
  /\ w \in Running
  /\ \/ w \in disturbed \/ ~job[w].checked
     \/ output[job[w].output] = OnnxForm(source[job[w].path])
  /\ job' = [job EXCEPT ![w] = NoJob]
  /\ verdict' = [verdict EXCEPT ![w] = "success"]
  /\ UNCHANGED <<source, output, disturbed>>

\* With a response or, terminated, without one.
Fail(w) ==
  /\ w \in Running
  /\ job' = [job EXCEPT ![w] = NoJob]
  /\ \E v \in {"failure", "none"} : verdict' = [verdict EXCEPT ![w] = v]
  /\ UNCHANGED <<source, output, disturbed>>

Edit == \E p \in Paths, c \in Contents :
  /\ source' = [source EXCEPT ![p] = c]
  /\ disturbed' = disturbed \cup {w \in Running : job[w].path = p}
  /\ UNCHANGED <<output, job, verdict>>

Next == Edit \/ \E w \in Workers : Begin(w) \/ Write(w) \/ Succeed(w) \/ Fail(w)

Spec == Init /\ [][Next]_vars

=============================================================================
