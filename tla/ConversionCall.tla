--------------------------- MODULE ConversionCall ---------------------------
(***************************************************************************)
(* What a call of RunConverterWorker is to RegisterModel (runtime/service/ *)
(* runtime_state.cpp): while it runs the file at output_path may change,   *)
(* it returns success for no file but one that was written during the      *)
(* call, and after a success or a failure the file is left alone. After a  *)
(* timeout it may still change, until the terminated converter is gone.    *)
(* The converters of RuntimeState are those of such calls.                 *)
(***************************************************************************)
CONSTANTS Workers, Conversions, None

VARIABLES
  call,       \* per worker: its conversion, or its last one
  busy,       \* the workers that are in RunConverterWorker
  lingering,  \* conversions that have timed out and whose converter is not gone
  output,     \* per conversion: the file at output_path
  result      \* per worker: the last return value

vars == <<call, busy, lingering, output, result>>

Init ==
  /\ call = [w \in Workers |-> None]
  /\ busy = {} /\ lingering = {}
  /\ output = [c \in Conversions |-> "none"]
  /\ result = [w \in Workers |-> "none"]

\* For the next model, of whose conversion there may be an earlier file.
Begin(w) ==
  /\ w \notin busy
  /\ busy' = busy \cup {w}
  /\ \E c \in Conversions \ lingering, file \in {"none", "stale"} :
       /\ \A v \in Workers \ {w} : call[v] # c
       /\ call' = [call EXCEPT ![w] = c]
       /\ output' = [output EXCEPT ![c] = file]
  /\ result' = [result EXCEPT ![w] = "none"]
  /\ UNCHANGED lingering

Write(c) ==
  /\ c \in lingering \/ \E w \in busy : call[w] = c
  /\ \E file \in {"torn", "fresh"} : output' = [output EXCEPT ![c] = file]
  /\ UNCHANGED <<call, busy, lingering, result>>

Succeed(w) ==
  /\ w \in busy
  /\ output[call[w]] = "fresh"
  /\ busy' = busy \ {w}
  /\ result' = [result EXCEPT ![w] = "SUCCESS"]
  /\ UNCHANGED <<call, lingering, output>>

Fail(w) ==
  /\ w \in busy
  /\ busy' = busy \ {w}
  /\ result' = [result EXCEPT ![w] = "MODEL_CONVERSION_FAILED"]
  /\ UNCHANGED <<call, lingering, output>>

TimeOut(w) ==
  /\ w \in busy
  /\ busy' = busy \ {w}
  /\ lingering' = lingering \cup {call[w]}
  /\ result' = [result EXCEPT ![w] = "TIMEOUT"]
  /\ UNCHANGED <<call, output>>

Gone(c) ==
  /\ c \in lingering
  /\ lingering' = lingering \ {c}
  /\ UNCHANGED <<call, busy, output, result>>

Next ==
  \/ \E w \in Workers : Begin(w) \/ Succeed(w) \/ Fail(w) \/ TimeOut(w)
  \/ \E c \in Conversions : Write(c) \/ Gone(c)

Spec == Init /\ [][Next]_vars

=============================================================================
