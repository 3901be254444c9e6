----------------------------- MODULE Conversion -----------------------------
(***************************************************************************)
(* The converter processes of the service (tools/converter_worker): each   *)
(* is one run of worker.py, which asks the ConverterRegistry for a          *)
(* converter, converts one model to ONNX, measures it on the execution      *)
(* providers and answers. Worker threads start them side by side, with one  *)
(* cache directory for their outputs and temporary files, and terminate     *)
(* them after 60 seconds.                                                   *)
(*                                                                         *)
(* A file or directory holds a model in a format. The libraries that read   *)
(* and write models (torch, tensorflow, coremltools, onnx, onnxruntime) may *)
(* raise at each step.                                                      *)
(***************************************************************************)
EXTENDS Benchmark

CONSTANTS
  Workers,        \* at most one converter process for each
  Paths,          \* model_path of requests
  Suffix,         \* per path: its file name's suffix, in lower case
  MayHold,        \* per path: the formats it may hold
  Models,         \* what is modelled, whatever the format
  Sources,        \* what paths hold at first
  Outputs,        \* output_path of requests
  Requests,       \* [command, path, output, shapes, optimize, benchmark, iterations]
  None, Torn,     \* no file, and one that is not complete
  Edits,          \* <<path, what it holds then>>
  MaxStarts,      \* bound on processes in all
  MaxEdits        \* bound on edits of sources

\* "invalid" is a file that onnx loads and whose check fails, "tensors" one that
\* torch.load takes and that is no module, "savedModel" a directory with
\* saved_model.pb and "textSavedModel" one with saved_model.pbtxt.
Formats ==
  {"onnx", "invalid", "package", "script", "module", "tensors", "keras",
   "savedModel", "textSavedModel"}
Contents == [model : Models, format : Formats]

ASSUME ConversionAssumption ==
  /\ None # Torn /\ None \notin Contents /\ Torn \notin Contents
  /\ None \notin [path : Paths, output : Outputs, checked : BOOLEAN]
  /\ Sources \subseteq [Paths -> Contents]
  /\ \A s \in Sources, p \in Paths : s[p].format \in MayHold[p]
  /\ \A e \in Edits : /\ e[1] \in Paths
                      /\ e[2] = None \/ (e[2] \in Contents /\ e[2].format \in MayHold[e[1]])
  /\ Requests # {}
  /\ \A r \in Requests : r.path \in Paths /\ r.output \in Outputs /\ r.optimize \in BOOLEAN
  /\ MaxStarts \in Nat /\ MaxEdits \in Nat

VARIABLES
  source,     \* per path: what it holds
  output,     \* per output: the file there
  temp,       \* per output: the SavedModel directory beside it
  request,    \* per worker: the request of its process
  step,       \* per worker: the next step of its process, or "ended"
  queue,      \* per worker: the converters still to ask, later the providers to measure
  converter,  \* per worker: the converter chosen
  loaded,     \* per worker: the model in memory
  info,       \* per worker: model_info, by the model it describes
  results,    \* per worker: the benchmark's results
  answer,     \* per worker: the response of its last process
  disturbed,  \* history: the workers whose source or output others used meanwhile
  starts,     \* processes started so far
  edits       \* edits of sources so far

files == <<source, output, temp>>
memory == <<queue, converter, loaded, info, results>>
vars == <<files, request, step, memory, answer, disturbed, starts, edits>>

As(content, format) == [content EXCEPT !.format = format]
OnnxForm(content) == IF content = None THEN None ELSE As(content, "onnx")

Holds(file, formats) == file \notin {None, Torn} /\ file.format \in formats

NoAnswer == [success |-> FALSE, reason |-> "not asked", info |-> None, file |-> None,
             results |-> <<>>]

Init ==
  /\ source \in Sources
  /\ output = [o \in Outputs |-> None]
  /\ temp = [o \in Outputs |-> None]
  /\ request \in [Workers -> {CHOOSE r \in Requests : TRUE}]
  /\ step = [w \in Workers |-> "ended"]
  /\ queue = [w \in Workers |-> <<>>]
  /\ converter = [w \in Workers |-> "none"]
  /\ loaded = [w \in Workers |-> None]
  /\ info = [w \in Workers |-> None]
  /\ results = [w \in Workers |-> <<>>]
  /\ answer = [w \in Workers |-> NoAnswer]
  /\ disturbed = {}
  /\ starts = 0 /\ edits = 0

Running == {w \in Workers : step[w] # "ended"}
Path(w) == request[w].path

\* Mutated form: the name of an output does not depend on the model.
OneOutput(w) == CHOOSE o \in Outputs : TRUE

Output(w) == request[w].output

Goto(w, s) == step' = [step EXCEPT ![w] = s]

\* A process takes its memory with it.
End(w) ==
  /\ Goto(w, "ended")
  /\ queue' = [queue EXCEPT ![w] = <<>>]
  /\ converter' = [converter EXCEPT ![w] = "none"]
  /\ loaded' = [loaded EXCEPT ![w] = None]
  /\ info' = [info EXCEPT ![w] = None]
  /\ results' = [results EXCEPT ![w] = <<>>]

\* Its response, of which the file is a history.
Answer(w, success, reason, rs) ==
  /\ End(w)
  /\ answer' = [answer EXCEPT ![w] =
       [success |-> success, reason |-> reason, info |-> info[w],
        file |-> output[Output(w)], results |-> rs]]

-----------------------------------------------------------------------------
(* The registry                                                            *)

\* "Order matters - earlier converters are tried first"
Registered == <<"ONNX", "CoreML", "PyTorch", "TensorFlow">>

Extensions ==
  [ONNX |-> {".onnx"}, CoreML |-> {".mlmodel", ".mlpackage"},
   PyTorch |-> {".pt", ".pth", ".pytorch"}, TensorFlow |-> {".savedmodel", ".h5", ".keras"}]

Extension(p) == IF Holds(source[p], {"savedModel"}) THEN ".savedmodel" ELSE Suffix[p]

Claiming(c, p) == IF Extension(p) \in Extensions[c] THEN <<c>> ELSE <<>>

\* The _extension_map
Candidates(p) ==
  Claiming("ONNX", p) \o Claiming("CoreML", p) \o Claiming("PyTorch", p)
    \o Claiming("TensorFlow", p)

Keras(p) == Suffix[p] \in {".h5", ".keras"}

CanConvert(c, p) ==
  LET may == [ONNX       |-> Suffix[p] = ".onnx" /\ Holds(source[p], {"onnx", "invalid"}),
              CoreML     |-> \/ Suffix[p] = ".mlmodel"
                             \/ Suffix[p] = ".mlpackage" /\ Holds(source[p], {"package"}),
              PyTorch    |-> /\ Suffix[p] \in Extensions["PyTorch"]
                             /\ Holds(source[p], {"script", "module", "tensors"}),
              TensorFlow |-> Keras(p) \/ Holds(source[p], {"savedModel", "textSavedModel"})]
  IN source[p] # None /\ may[c]

\* Mutated form: no fallback to the converters that do not name the extension.
AskCandidates(p) == Candidates(p)

\* get_converter asks the candidates for the extension, then all.
ConvertersToAsk(p) == Candidates(p) \o Registered

-----------------------------------------------------------------------------
(* A converter process                                                     *)

Start(w, r) ==
  /\ w \notin Running
  /\ starts < MaxStarts /\ starts' = starts + 1
  /\ request' = [request EXCEPT ![w] = r]
  /\ Goto(w, "route")
  /\ queue' = [queue EXCEPT ![w] = ConvertersToAsk(r.path)]
  /\ answer' = [answer EXCEPT ![w] = NoAnswer]
  /\ LET sharing == {v \in Running : Output(v) = r.output} IN
     disturbed' = (disturbed \ {w}) \cup sharing \cup (IF sharing = {} THEN {} ELSE {w})
  /\ UNCHANGED <<files, converter, loaded, info, results, edits>>

\* can_convert of one converter
AskConverter(w) ==
  /\ step[w] = "route" /\ queue[w] # <<>>
  /\ IF CanConvert(Head(queue[w]), Path(w))
     THEN /\ converter' = [converter EXCEPT ![w] = Head(queue[w])]
          /\ queue' = [queue EXCEPT ![w] = <<>>]
          /\ Goto(w, IF request[w].command = "convert" THEN "load" ELSE "metadata")
     ELSE /\ queue' = [queue EXCEPT ![w] = Tail(@)]
          /\ UNCHANGED <<converter, step>>
  /\ UNCHANGED <<files, request, loaded, info, results, answer, disturbed, starts, edits>>

\* Mutated form: that there is none is not noticed.
GoOnWithout(w) ==
  /\ step[w] = "route" /\ queue[w] = <<>>
  /\ Goto(w, "load")
  /\ UNCHANGED <<files, request, memory, answer, disturbed, starts, edits>>

NoConverter(w) ==
  /\ step[w] = "route" /\ queue[w] = <<>>
  /\ Answer(w, FALSE, "no converter", <<>>)
  /\ UNCHANGED <<files, request, disturbed, starts, edits>>

\* What a converter can go on with, checked as it does; the others fail.
Loadable(w, content) ==
  \/ converter[w] = "ONNX" /\ Holds(content, {"onnx"})
  \/ converter[w] = "CoreML" /\ Holds(content, {"package"})
  \/ converter[w] = "PyTorch"
     /\ \/ Holds(content, {"script"})
        \/ Holds(content, {"module"}) /\ request[w].shapes
  \/ converter[w] = "TensorFlow"
     /\ Holds(content, IF Keras(Path(w)) THEN {"keras"} ELSE {"savedModel", "textSavedModel"})

Load(w) ==
  /\ step[w] = "load"
  /\ Loadable(w, source[Path(w)])
  /\ loaded' = [loaded EXCEPT ![w] = source[Path(w)]]
  /\ Goto(w, IF Keras(Path(w)) THEN "temp" ELSE "open")
  /\ UNCHANGED <<files, request, queue, converter, info, results, answer, disturbed, starts, edits>>

\* Mutated form: one directory for all.
OneTempDirectory(w) == CHOOSE o \in Outputs : TRUE

\* _temp_savedmodel_{output_path.stem}
TempDirectory(w) == Output(w)

\* A Keras model is saved, into a directory that may be left from before, and what
\* is converted is read back from there.
SaveTemp(w) ==
  /\ \/ /\ step[w] = "temp"
        /\ temp' = [temp EXCEPT ![TempDirectory(w)] = Torn]
        /\ Goto(w, "temp saved")
     \/ /\ step[w] = "temp saved"
        /\ temp' = [temp EXCEPT ![TempDirectory(w)] = As(loaded[w], "savedModel")]
        /\ Goto(w, "read")
  /\ UNCHANGED <<source, output, request, memory, answer, disturbed, starts, edits>>

ReadTemp(w) ==
  /\ step[w] = "read"
  /\ Holds(temp[TempDirectory(w)], {"savedModel"})
  /\ loaded' = [loaded EXCEPT ![w] = temp[TempDirectory(w)]]
  /\ Goto(w, "open")
  /\ UNCHANGED <<files, request, queue, converter, info, results, answer, disturbed, starts, edits>>

OpenOutput(w) ==
  /\ step[w] = "open"
  /\ output' = [output EXCEPT ![Output(w)] = Torn]
  /\ Goto(w, "write")
  /\ UNCHANGED <<source, temp, request, memory, answer, disturbed, starts, edits>>

\* The ONNX converter copies what its source holds now, or the optimizer reads that for
\* itself and may write what the checker would refuse. An export may be invalid.
Written(w) ==
  LET now == source[Path(w)]
      optimized == {o \in Contents : o.model = now.model /\ o.format \in {"onnx", "invalid"}}
  IN IF converter[w] = "ONNX"
     THEN {now} \cup (IF now # None /\ request[w].optimize THEN optimized ELSE {})
     ELSE {As(loaded[w], "onnx"), As(loaded[w], "invalid")}

\* Two processes that write to one file may leave a mix of both.
WriteOutput(w) ==
  /\ step[w] = "write"
  /\ \E file \in Written(w) \cup (IF w \in disturbed THEN {Torn} ELSE {}) :
       file # None /\ output' = [output EXCEPT ![Output(w)] = file]
  /\ Goto(w, IF converter[w] = "ONNX" THEN "describe" ELSE "validate")
  /\ UNCHANGED <<source, temp, request, memory, answer, disturbed, starts, edits>>

Validate(w) ==
  /\ step[w] = "validate"
  /\ Holds(output[Output(w)], {"onnx"})
  /\ Goto(w, "describe")
  /\ UNCHANGED <<files, request, memory, answer, disturbed, starts, edits>>

\* Of the model in memory, or of the file as it is now
DescribeLoaded(w) ==
  /\ converter[w] \in {"ONNX", "CoreML"}
  /\ info' = [info EXCEPT ![w] = loaded[w].model]

DescribeOutput(w) ==
  /\ converter[w] \in {"PyTorch", "TensorFlow"}
  /\ Holds(output[Output(w)], {"onnx", "invalid"})
  /\ info' = [info EXCEPT ![w] = output[Output(w)].model]

\* And benchmark_model finds the providers, none when onnxruntime is missing.
Describe(w) ==
  /\ step[w] = "describe"
  /\ DescribeLoaded(w) \/ DescribeOutput(w)
  /\ \E ps \in {<<>>, Providers} :
       queue' = [queue EXCEPT ![w] = IF request[w].benchmark THEN ps ELSE <<>>]
  /\ Goto(w, "benchmark")
  /\ UNCHANGED <<files, request, converter, loaded, results, answer, disturbed, starts, edits>>

\* _benchmark_provider opens the file for itself.
MeasureProvider(w) ==
  /\ step[w] = "benchmark" /\ queue[w] # <<>>
  /\ LET file == output[Output(w)] IN
     \E r \in ProviderResults(Head(queue[w]), file, Holds(file, {"onnx"}),
                              request[w].iterations) :
       results' = [results EXCEPT ![w] = Append(@, r)]
  /\ queue' = [queue EXCEPT ![w] = Tail(@)]
  /\ UNCHANGED <<files, request, step, converter, loaded, info, answer, disturbed, starts, edits>>

\* An exception outside _benchmark_provider leaves the benchmark out of the response.
AnswerConverted(w) ==
  /\ step[w] = "benchmark"
  /\ \/ queue[w] = <<>> /\ Answer(w, TRUE, "none", results[w])
     \/ request[w].benchmark /\ Answer(w, TRUE, "benchmark error", <<>>)
  /\ UNCHANGED <<files, request, disturbed, starts, edits>>

\* extract_metadata loads the source and describes it, also a PyTorch model of any
\* kind and an ONNX model that its check would refuse.
ExtractMetadata(w) ==
  /\ step[w] = "metadata"
  /\ source[Path(w)] # None
  /\ info' = [info EXCEPT ![w] = source[Path(w)].model]
  /\ Goto(w, "described")
  /\ UNCHANGED <<files, request, queue, converter, loaded, results, answer, disturbed, starts, edits>>

AnswerMetadata(w) ==
  /\ step[w] = "described"
  /\ Answer(w, TRUE, "none", <<>>)
  /\ UNCHANGED <<files, request, disturbed, starts, edits>>

\* Any step may raise, and has to when its model is none that the step can take; what
\* the benchmark raises is caught, but not what its report does. Files are left as they
\* are.
Fails(w) ==
  /\ w \in Running
  /\ Answer(w, FALSE, "error", <<>>)
  /\ UNCHANGED <<files, request, disturbed, starts, edits>>

\* TerminateProcess, by the service after 60 seconds: there is no response.
Terminate(w) ==
  /\ w \in Running
  /\ End(w)
  /\ UNCHANGED <<files, request, answer, disturbed, starts, edits>>

EditSource(p, c) ==
  /\ edits < MaxEdits
  /\ source' = [source EXCEPT ![p] = c]
  /\ edits' = edits + 1
  /\ disturbed' = disturbed \cup {w \in Running : Path(w) = p}
  /\ UNCHANGED <<output, temp, request, step, memory, answer, starts>>

Process(w) ==
  \/ AskConverter(w) \/ NoConverter(w) \/ Load(w) \/ SaveTemp(w) \/ ReadTemp(w)
  \/ OpenOutput(w) \/ WriteOutput(w) \/ Validate(w) \/ Describe(w)
  \/ MeasureProvider(w) \/ AnswerConverted(w)
  \/ ExtractMetadata(w) \/ AnswerMetadata(w) \/ Fails(w)

Next ==
  \/ \E w \in Workers : (\E r \in Requests : Start(w, r)) \/ Process(w) \/ Terminate(w)
  \/ \E e \in Edits : EditSource(e[1], e[2])

Spec == Init /\ [][Next]_vars

-----------------------------------------------------------------------------
(* Properties *)

Files == Contents \cup {None, Torn}
Converters == {"ONNX", "CoreML", "PyTorch", "TensorFlow"}
Measurements ==
  [provider : ProviderNames, success : BOOLEAN, mean : 0..MaxLatency, of : Files]

Responses ==
  [success : BOOLEAN, info : Models \cup {None}, file : Files, results : Seq(Measurements),
   reason : {"not asked", "none", "no converter", "benchmark error", "error"}]

FileTypes ==
  /\ source \in [Paths -> Contents \cup {None}]
  /\ output \in [Outputs -> Files] /\ temp \in [Outputs -> Files]

StepTypes ==
  /\ request \in [Workers -> Requests]
  /\ step \in [Workers -> {"ended", "route", "load", "temp", "temp saved", "read", "open",
                           "write", "validate", "describe", "benchmark", "metadata",
                           "described"}]
  /\ converter \in [Workers -> Converters \cup {"none"}]
  /\ \A w \in Workers : step[w] \notin {"route", "ended"} => converter[w] # "none"

QueueTypes ==
  /\ queue \in [Workers -> Seq(Converters \cup ProviderNames)]
  /\ \A w \in Workers :
       /\ step[w] = "route" => queue[w] \in Seq(Converters)
       /\ step[w] = "benchmark" => queue[w] \in Seq(ProviderNames)

MemoryTypes ==
  /\ loaded \in [Workers -> Contents \cup {None}]
  /\ info \in [Workers -> Models \cup {None}]
  /\ results \in [Workers -> Seq(Measurements)]

\* What each variable holds.
TypeOK ==
  /\ FileTypes /\ StepTypes /\ QueueTypes /\ MemoryTypes
  /\ answer \in [Workers -> Responses]
  /\ disturbed \subseteq Workers /\ starts \in 0..MaxStarts /\ edits \in 0..MaxEdits

Job(w) ==
  IF w \notin Running THEN None
  ELSE [path |-> Path(w), output |-> Output(w),
        checked |-> request[w].command = "convert" /\ ~request[w].optimize]

Verdict(w) ==
  IF w \in Running \/ answer[w].reason = "not asked" THEN "none"
  ELSE IF answer[w].success THEN "success" ELSE "failure"

Contract == INSTANCE ConversionContract WITH
  Contents <- Files,
  NoJob    <- None,
  job      <- [w \in Workers |-> Job(w)],
  verdict  <- [w \in Workers |-> Verdict(w)]

\* What ConverterProcess takes for granted: side by side in one directory, whichever
\* are terminated and leave what they wrote, a process writes to no output but its
\* own, and it reports success for nothing but the valid ONNX form of its source.
ImplementsContract == Contract!Spec

Converted(w) ==
  w \notin Running /\ answer[w].success /\ request[w].command = "convert"

\* The description and every measurement in a response are of the file that the
\* response names, although the file is read again for each of them.
AnswerDescribesOutput == \A w \in Workers :
  Converted(w) /\ w \notin disturbed =>
    /\ Holds(answer[w].file, {"onnx", "invalid"}) /\ answer[w].info = answer[w].file.model
    /\ \A i \in DOMAIN answer[w].results : answer[w].results[i].of = answer[w].file

\* Which converter a format is for, whatever its files are called.
Owner ==
  [onnx |-> "ONNX", invalid |-> "ONNX", package |-> "CoreML", script |-> "PyTorch",
   module |-> "PyTorch", tensors |-> "PyTorch", keras |-> "TensorFlow",
   savedModel |-> "TensorFlow", textSavedModel |-> "TensorFlow"]

\* Two converters look no further than the suffix of a file: that it tells is up to
\* whoever names it.
NamesTell == \A p \in Paths :
  /\ Keras(p) => MayHold[p] \subseteq {"keras", "savedModel", "textSavedModel"}
  /\ Suffix[p] = ".mlmodel" => MayHold[p] \subseteq {"package", "savedModel"}

\* A source goes to the converter of its format, also a directory whose name says
\* nothing or something else; it is refused only when no converter accepts it.
RoutedByFormat ==
  [][\A w \in Workers \ disturbed' : w \in Running =>
       /\ step'[w] \in {"load", "metadata"} =>
            source[Path(w)] # None /\ converter'[w] = Owner[source[Path(w)].format]
       /\ answer'[w].reason = "no converter" =>
            \A c \in DOMAIN Extensions : ~CanConvert(c, Path(w))]_vars

\* The provider called the fastest has run the model, none that has was faster, and no
\* speedup is claimed unless the CPU was measured and is slower.
BenchmarkSound == \A w \in Workers :
  Converted(w) =>
    LET s == Summary(answer[w].results) IN
    IF \A r \in {s.results[i] : i \in DOMAIN s.results} : ~r.success
    THEN s.fastest = NoProvider /\ s.speedup = <<1, 1>>
    ELSE /\ \E i \in DOMAIN s.results :
              /\ s.results[i].provider = s.fastest /\ s.results[i].success
              /\ s.results[i].mean = s.best
              /\ \A j \in DOMAIN s.results : s.results[j].success => s.best <= s.results[j].mean
         /\ s.speedup[1] >= s.speedup[2]
         /\ s.speedup[1] > s.speedup[2] =>
              \E i \in DOMAIN s.results :
                /\ s.results[i].provider = "CPU" /\ s.results[i].success
                /\ s.results[i].mean > s.best

=============================================================================
