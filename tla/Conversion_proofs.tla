-------------------------- MODULE Conversion_proofs --------------------------
(***************************************************************************)
(* Theorems about Conversion, for any number of processes, requests and    *)
(* models, and any outcome of the libraries: its types, where sources are  *)
(* routed, what answers say of the output and of the latencies measured,   *)
(* and that it implements ConversionContract.                              *)
(***************************************************************************)
EXTENDS Conversion, SequenceTheorems, WellFoundedInduction, TLAPS

LEMMA AskedConverters ==
  ASSUME NEW p
  PROVE  /\ Candidates(p) \in Seq(Converters) /\ ConvertersToAsk(p) \in Seq(Converters)
         /\ ConvertersToAsk(p) \in Seq(Converters \cup ProviderNames)
<1>1. Registered \in Seq(Converters)
  BY DEF Registered, Converters
<1>2. ASSUME NEW c \in Converters PROVE Claiming(c, p) \in Seq(Converters)
  BY DEF Claiming
<1>3. Candidates(p) \in Seq(Converters)
  <2>1. \A c \in {"ONNX", "CoreML", "PyTorch", "TensorFlow"} : Claiming(c, p) \in Seq(Converters)
    BY <1>2 DEF Converters
  <2> QED
    BY <2>1, ConcatProperties DEF Candidates
<1>4. ConvertersToAsk(p) \in Seq(Converters)
  BY <1>1, <1>3, ConcatProperties DEF ConvertersToAsk
<1> QED
  BY <1>3, <1>4, SeqMonotonic

LEMMA FoundProviders ==
  Providers \in Seq(ProviderNames) /\ Providers \in Seq(Converters \cup ProviderNames)
<1>1. \A p \in ProviderNames : Found(p) \in Seq(ProviderNames)
  BY DEF Found
<1>2. Providers \in Seq(ProviderNames)
  BY <1>1, ConcatProperties DEF Providers, ProviderNames
<1> QED
  BY <1>2, SeqMonotonic

-----------------------------------------------------------------------------
(* Types *)

LEMMA ContentTypes ==
  /\ \A c \in Contents, f \in Formats : /\ As(c, f) \in Contents /\ As(c, f).model = c.model
                                        /\ As(c, f).format = f
  /\ Contents \subseteq Files /\ None \in Files /\ Torn \in Files
  /\ "onnx" \in Formats /\ "invalid" \in Formats /\ "savedModel" \in Formats
BY DEF Contents, Formats, As, Files

LEMMA NoAnswerType == NoAnswer \in Responses
<1>1. <<>> \in Seq(Measurements)
  BY EmptySeq
<1> QED
  BY <1>1 DEF NoAnswer, Responses, Files

\* What a process has left when it has ended is of the types of its memory.
LEMMA EndTypes ==
  ASSUME TypeOK, NEW w \in Workers, End(w),
         UNCHANGED <<files, request, disturbed, starts, edits>>,
         answer' \in [Workers -> Responses]
  PROVE  TypeOK'
<1>1. /\ <<>> \in Seq(Converters \cup ProviderNames)
      /\ <<>> \in Seq(Converters) /\ <<>> \in Seq(ProviderNames) /\ <<>> \in Seq(Measurements)
  BY EmptySeq
<1>2. FileTypes'
  BY DEF TypeOK, FileTypes, files
<1>3. StepTypes'
  BY DEF TypeOK, StepTypes, End, Goto
<1>4. QueueTypes'
  BY <1>1 DEF TypeOK, StepTypes, QueueTypes, End, Goto
<1>5. MemoryTypes'
  BY <1>1 DEF TypeOK, MemoryTypes, End
<1> QED
  BY <1>2, <1>3, <1>4, <1>5 DEF TypeOK

LEMMA AnswerTypes ==
  ASSUME TypeOK, NEW w \in Workers, NEW success \in BOOLEAN,
         NEW reason \in {"none", "no converter", "benchmark error", "error"},
         NEW rs \in Seq(Measurements), Answer(w, success, reason, rs),
         UNCHANGED <<files, request, disturbed, starts, edits>>
  PROVE  TypeOK'
<1>1. Output(w) \in Outputs
  BY ConversionAssumption DEF TypeOK, StepTypes, Output
<1>2. [success |-> success, reason |-> reason, info |-> info[w],
       file |-> output[Output(w)], results |-> rs] \in Responses
  BY <1>1 DEF TypeOK, FileTypes, MemoryTypes, Responses
<1>3. answer' \in [Workers -> Responses]
  BY <1>2 DEF TypeOK, Answer
<1> QED
  BY <1>3, EndTypes DEF Answer

\* A process that has loaded a model has it until it has described it.
Loaded ==
  \A w \in Workers :
    step[w] \in {"temp", "temp saved", "read", "open", "write", "validate", "describe"} =>
      loaded[w] \in Contents

Typed == TypeOK /\ Loaded

LEMMA InitTypes == Init => Typed
<1> SUFFICES ASSUME Init PROVE Typed
  OBVIOUS
<1>1. /\ <<>> \in Seq(Converters \cup ProviderNames)
      /\ <<>> \in Seq(Converters) /\ <<>> \in Seq(ProviderNames) /\ <<>> \in Seq(Measurements)
  BY EmptySeq
<1>2. FileTypes
  BY ConversionAssumption DEF Init, FileTypes, Files
<1>3. StepTypes
  <2>1. request \in [Workers -> Requests]
    BY ConversionAssumption DEF Init
  <2> QED
    BY <2>1 DEF Init, StepTypes
<1>4. QueueTypes
  BY <1>1 DEF Init, QueueTypes
<1>5. MemoryTypes
  BY <1>1 DEF Init, MemoryTypes
<1>6. answer \in [Workers -> Responses]
  BY NoAnswerType DEF Init
<1> QED
  BY <1>2, <1>3, <1>4, <1>5, <1>6, ConversionAssumption DEF Init, Typed, TypeOK, Loaded

\* Types are kept by every step of a process.
LEMMA ProcessTypes ==
  ASSUME Typed, NEW w \in Workers, Process(w)
  PROVE  TypeOK'
<1> USE DEF Goto, files, memory
<1>1. /\ Path(w) \in Paths /\ Output(w) \in Outputs
      /\ source[Path(w)] \in Contents \cup {None}
      /\ output[Output(w)] \in Files /\ temp[Output(w)] \in Files
  BY ConversionAssumption DEF Typed, TypeOK, StepTypes, FileTypes, Path, Output
<1>2. CASE AskConverter(w)
  <2>1. queue[w] \in Seq(Converters) /\ queue[w] # <<>>
    BY <1>2 DEF Typed, TypeOK, QueueTypes, AskConverter
  <2>2. Head(queue[w]) \in Converters /\ Tail(queue[w]) \in Seq(Converters)
    BY <2>1, HeadTailProperties
  <2>3. Tail(queue[w]) \in Seq(Converters \cup ProviderNames)
    BY <2>2, SeqMonotonic
  <2>4. <<>> \in Seq(Converters \cup ProviderNames)
    BY EmptySeq
  <2>5. StepTypes'
    BY <1>2, <2>2 DEF Typed, TypeOK, StepTypes, AskConverter, Converters
  <2>6. QueueTypes'
    BY <1>2, <2>2, <2>3, <2>4 DEF Typed, TypeOK, StepTypes, QueueTypes, AskConverter
  <2> QED
    BY <1>2, <2>5, <2>6 DEF Typed, TypeOK, FileTypes, MemoryTypes, AskConverter
<1>3. CASE NoConverter(w)
  BY <1>3, AnswerTypes, EmptySeq DEF NoConverter, Typed
<1>4. CASE Load(w)
  <2>1. StepTypes' /\ QueueTypes'
    BY <1>4 DEF Load, Typed, TypeOK, StepTypes, QueueTypes
  <2> QED
    BY <1>1, <1>4, <2>1 DEF Load, Typed, TypeOK, FileTypes, MemoryTypes
<1>5. CASE SaveTemp(w)
  <2>1. loaded[w] \in Contents
    BY <1>5 DEF SaveTemp, Typed, Loaded
  <2>2. StepTypes' /\ QueueTypes'
    BY <1>5 DEF SaveTemp, Typed, TypeOK, StepTypes, QueueTypes
  <2>3. FileTypes'
    BY <1>1, <1>5, <2>1, ContentTypes DEF SaveTemp, Typed, TypeOK, FileTypes, TempDirectory
  <2> QED
    BY <1>5, <2>2, <2>3 DEF SaveTemp, Typed, TypeOK, MemoryTypes
<1>6. CASE ReadTemp(w)
  <2>1. StepTypes' /\ QueueTypes'
    BY <1>6 DEF ReadTemp, Typed, TypeOK, StepTypes, QueueTypes
  <2>2. MemoryTypes'
    BY <1>1, <1>6 DEF ReadTemp, Typed, TypeOK, MemoryTypes, TempDirectory, Holds, Files
  <2> QED
    BY <1>6, <2>1, <2>2 DEF ReadTemp, Typed, TypeOK, FileTypes
<1>7. CASE OpenOutput(w)
  <2>1. StepTypes' /\ QueueTypes'
    BY <1>7 DEF OpenOutput, Typed, TypeOK, StepTypes, QueueTypes
  <2> QED
    BY <1>1, <1>7, <2>1, ContentTypes DEF OpenOutput, Typed, TypeOK, FileTypes, MemoryTypes
<1>8. CASE WriteOutput(w)
  <2>1. loaded[w] \in Contents
    BY <1>8 DEF WriteOutput, Typed, Loaded
  <2>2. Written(w) \cup {Torn} \subseteq Files
    BY <1>1, <2>1, ContentTypes DEF Written, Files
  <2>3. StepTypes' /\ QueueTypes'
    BY <1>8 DEF WriteOutput, Typed, TypeOK, StepTypes, QueueTypes
  <2>4. FileTypes'
    BY <1>1, <1>8, <2>2 DEF WriteOutput, Typed, TypeOK, FileTypes
  <2> QED
    BY <1>8, <2>3, <2>4 DEF WriteOutput, Typed, TypeOK, MemoryTypes
<1>9. CASE Validate(w)
  <2>1. StepTypes' /\ QueueTypes'
    BY <1>9 DEF Validate, Typed, TypeOK, StepTypes, QueueTypes
  <2> QED
    BY <1>9, <2>1 DEF Validate, Typed, TypeOK, FileTypes, MemoryTypes
<1>10. CASE Describe(w)
  <2>1. info' \in [Workers -> Models \cup {None}]
    <3>1. loaded[w] \in Contents
      BY <1>10 DEF Describe, Typed, Loaded
    <3>2. Holds(output[Output(w)], {"onnx", "invalid"}) => output[Output(w)] \in Contents
      BY <1>1 DEF Holds, Files
    <3>3. \A c \in Contents : c.model \in Models
      BY DEF Contents
    <3> QED
      BY <1>10, <3>1, <3>2, <3>3
      DEF Describe, DescribeLoaded, DescribeOutput, Typed, TypeOK, MemoryTypes
  <2>2. PICK ps \in {<<>>, Providers} :
          queue' = [queue EXCEPT ![w] = IF request[w].benchmark THEN ps ELSE <<>>]
    BY <1>10 DEF Describe
  <2> DEFINE q == IF request[w].benchmark THEN ps ELSE <<>>
  <2>3. q \in Seq(ProviderNames) /\ q \in Seq(Converters \cup ProviderNames)
    BY FoundProviders, EmptySeq
  <2>4. StepTypes'
    BY <1>10 DEF Describe, Typed, TypeOK, StepTypes
  <2>5. QueueTypes'
    <3> HIDE DEF q
    <3>1. queue' = [queue EXCEPT ![w] = q]
      BY <2>2 DEF q
    <3> QED
      BY <1>10, <2>3, <3>1 DEF Describe, Typed, TypeOK, StepTypes, QueueTypes
  <2> QED
    BY <1>10, <2>1, <2>4, <2>5 DEF Describe, Typed, TypeOK, FileTypes, MemoryTypes
<1>11. CASE MeasureProvider(w)
  <2>1. queue[w] \in Seq(ProviderNames) /\ queue[w] # <<>>
    BY <1>11 DEF MeasureProvider, Typed, TypeOK, QueueTypes
  <2>2. Head(queue[w]) \in ProviderNames /\ Tail(queue[w]) \in Seq(ProviderNames)
    BY <2>1, HeadTailProperties
  <2>3. Tail(queue[w]) \in Seq(Converters \cup ProviderNames)
    BY <2>2, SeqMonotonic
  <2>4. PICK r \in ProviderResults(Head(queue[w]), output[Output(w)],
                      Holds(output[Output(w)], {"onnx"}), request[w].iterations) :
          results' = [results EXCEPT ![w] = Append(@, r)]
    BY <1>11 DEF MeasureProvider
  <2>5. r \in Measurements
    <3>1. 0 \in 0..MaxLatency
      BY BenchmarkAssumption
    <3>2. \A p \in ProviderNames, s \in BOOLEAN, mean \in 0..MaxLatency, file \in Files :
            Measurement(p, s, mean, file) \in Measurements
      BY DEF Measurement, Measurements
    <3> QED
      BY <1>1, <2>2, <2>4, <3>1, <3>2 DEF ProviderResults
  <2>6. MemoryTypes'
    BY <1>11, <2>4, <2>5, AppendProperties DEF MeasureProvider, Typed, TypeOK, MemoryTypes
  <2>7. StepTypes' /\ QueueTypes'
    BY <1>11, <2>2, <2>3 DEF MeasureProvider, Typed, TypeOK, StepTypes, QueueTypes
  <2> QED
    BY <1>11, <2>6, <2>7 DEF MeasureProvider, Typed, TypeOK, FileTypes
<1>12. CASE AnswerConverted(w)
  <2>1. results[w] \in Seq(Measurements) /\ <<>> \in Seq(Measurements)
    BY EmptySeq DEF Typed, TypeOK, MemoryTypes
  <2> QED
    BY <1>12, <2>1, AnswerTypes DEF AnswerConverted, Typed
<1>13. CASE ExtractMetadata(w)
  <2>1. source[Path(w)].model \in Models
    BY <1>1, <1>13 DEF ExtractMetadata, Contents
  <2>2. StepTypes' /\ QueueTypes'
    BY <1>13 DEF ExtractMetadata, Typed, TypeOK, StepTypes, QueueTypes
  <2> QED
    BY <1>13, <2>1, <2>2 DEF ExtractMetadata, Typed, TypeOK, FileTypes, MemoryTypes
<1>14. CASE AnswerMetadata(w) \/ Fails(w)
  BY <1>14, AnswerTypes, EmptySeq DEF AnswerMetadata, Fails, Typed
<1> QED
  BY <1>2, <1>3, <1>4, <1>5, <1>6, <1>7, <1>8, <1>9, <1>10, <1>11, <1>12, <1>13, <1>14
  DEF Process

\* And by every other step.
LEMMA NextTypes == Typed /\ [Next]_vars => TypeOK'
<1> SUFFICES ASSUME Typed, [Next]_vars PROVE TypeOK'
  OBVIOUS
<1>1. ASSUME NEW w \in Workers, NEW r \in Requests, Start(w, r) PROVE TypeOK'
  <2>1. StepTypes'
    BY <1>1 DEF Start, Goto, Typed, TypeOK, StepTypes
  <2>2. QueueTypes'
    BY <1>1, AskedConverters DEF Start, Goto, Typed, TypeOK, StepTypes, QueueTypes
  <2>3. answer' \in [Workers -> Responses]
    BY <1>1, NoAnswerType DEF Start, Typed, TypeOK
  <2>4. disturbed' \subseteq Workers /\ starts' \in 0..MaxStarts
    BY <1>1, ConversionAssumption DEF Start, Typed, TypeOK, Running
  <2> QED
    BY <1>1, <2>1, <2>2, <2>3, <2>4 DEF Start, files, Typed, TypeOK, FileTypes, MemoryTypes
<1>2. ASSUME NEW w \in Workers, Terminate(w) PROVE TypeOK'
  BY <1>2, EndTypes DEF Terminate, Typed, TypeOK
<1>3. ASSUME NEW e \in Edits, EditSource(e[1], e[2]) PROVE TypeOK'
  <2>1. FileTypes'
    BY <1>3, ConversionAssumption DEF EditSource, Typed, TypeOK, FileTypes
  <2>2. disturbed' \subseteq Workers /\ edits' \in 0..MaxEdits
    BY <1>3, ConversionAssumption DEF EditSource, Typed, TypeOK, Running
  <2> QED
    BY <1>3, <2>1, <2>2
    DEF EditSource, Typed, TypeOK, memory, StepTypes, QueueTypes, MemoryTypes
<1>4. CASE UNCHANGED vars
  BY <1>4 DEF vars, files, memory, Typed, TypeOK, FileTypes, StepTypes, QueueTypes, MemoryTypes
<1> QED
  BY <1>1, <1>2, <1>3, <1>4, ProcessTypes DEF Next

-----------------------------------------------------------------------------
(* What a process that nobody disturbs knows of its source and its output *)

AsksAndLoads(w) ==
  /\ w \in Running => answer[w].reason = "not asked" /\ ~answer[w].success
  /\ step[w] \in {"metadata", "described"} => request[w].command # "convert"
  /\ step[w] # "benchmark" => results[w] = <<>>

HasModel(w) ==
  step[w] \in {"temp", "temp saved", "read", "open", "write", "validate", "describe"} =>
    /\ source[Path(w)] \in Contents /\ loaded[w].model = source[Path(w)].model
    /\ converter[w] = "ONNX" => source[Path(w)].format = "onnx"

HasTemp(w) == step[w] = "read" => temp[Output(w)] = As(loaded[w], "savedModel")

HasOutput(w) ==
  step[w] \in {"validate", "describe", "benchmark"} =>
    /\ source[Path(w)] \in Contents
    /\ output[Output(w)] \in Contents
    /\ output[Output(w)].model = source[Path(w)].model
    /\ output[Output(w)].format \in {"onnx", "invalid"}
    /\ step[w] # "validate" /\ ~request[w].optimize => output[Output(w)].format = "onnx"

HasMeasured(w) ==
  step[w] = "benchmark" =>
    /\ info[w] = output[Output(w)].model
    /\ \A i \in DOMAIN results[w] : results[w][i].of = output[Output(w)]

HasAnswered(w) ==
  Converted(w) =>
    /\ Holds(answer[w].file, {"onnx", "invalid"}) /\ answer[w].info = answer[w].file.model
    /\ \A i \in DOMAIN answer[w].results : answer[w].results[i].of = answer[w].file

Knows(w) ==
  /\ AsksAndLoads(w)
  /\ w \notin disturbed => /\ HasModel(w) /\ HasTemp(w) /\ HasOutput(w) /\ HasMeasured(w)
                          /\ HasAnswered(w)

\* Two processes with one output disturb each other.
Apart ==
  \A v, w \in Running : v # w /\ Output(v) = Output(w) => w \in disturbed

IInv == Typed /\ (\A w \in Workers : Knows(w)) /\ Apart

\* A step of a process keeps to its memory, its response and its output.
LEMMA ProcessFrame ==
  ASSUME TypeOK, NEW w \in Workers, Process(w) \/ Terminate(w)
  PROVE  /\ w \in Running
         /\ UNCHANGED <<source, request, disturbed>>
         /\ \A v \in Workers \ {w} :
              /\ step'[v] = step[v] /\ converter'[v] = converter[v]
              /\ loaded'[v] = loaded[v] /\ info'[v] = info[v] /\ results'[v] = results[v]
              /\ answer'[v] = answer[v]
         /\ \A o \in Outputs \ {Output(w)} : output'[o] = output[o] /\ temp'[o] = temp[o]
<1> USE DEF TypeOK, FileTypes, StepTypes, MemoryTypes, Running, Goto, files, memory, End, Answer,
            TempDirectory
<1>1. CASE AskConverter(w) \/ Load(w) \/ SaveTemp(w) \/ ReadTemp(w)
  BY <1>1 DEF AskConverter, Load, SaveTemp, ReadTemp
<1>2. CASE OpenOutput(w) \/ WriteOutput(w) \/ Validate(w)
  BY <1>2 DEF OpenOutput, WriteOutput, Validate
<1>3. CASE Describe(w)
  <2>1. \E x : info' = [info EXCEPT ![w] = x]
    BY <1>3 DEF Describe, DescribeLoaded, DescribeOutput
  <2> QED
    BY <1>3, <2>1 DEF Describe
<1>4. CASE MeasureProvider(w)
  <2>1. \E x : results' = [results EXCEPT ![w] = x]
    BY <1>4 DEF MeasureProvider
  <2> QED
    BY <1>4, <2>1 DEF MeasureProvider
<1>5. CASE ExtractMetadata(w)
  BY <1>5 DEF ExtractMetadata
<1>6. CASE NoConverter(w) \/ AnswerMetadata(w) \/ Fails(w) \/ Terminate(w)
  BY <1>6 DEF NoConverter, AnswerMetadata, Fails, Terminate
<1>7. CASE AnswerConverted(w)
  BY <1>7 DEF AnswerConverted
<1> QED
  BY <1>1, <1>2, <1>3, <1>4, <1>5, <1>6, <1>7 DEF Process

\* So it takes nothing from what the others know.
LEMMA OthersKnow ==
  ASSUME IInv, NEW w \in Workers, Process(w) \/ Terminate(w), NEW v \in Workers, v # w
  PROVE  Knows(v)'
<1>1. Knows(v)
  BY DEF IInv
<1>2. /\ w \in Running /\ UNCHANGED <<source, request, disturbed>>
      /\ step'[v] = step[v] /\ converter'[v] = converter[v]
      /\ loaded'[v] = loaded[v] /\ info'[v] = info[v] /\ results'[v] = results[v]
      /\ answer'[v] = answer[v]
      /\ \A o \in Outputs \ {Output(w)} : output'[o] = output[o] /\ temp'[o] = temp[o]
  BY ProcessFrame DEF IInv, Typed
<1>3. Output(v) \in Outputs
  BY ConversionAssumption DEF IInv, Typed, TypeOK, StepTypes, Output
<1>4. v \in Running /\ v \notin disturbed =>
        output'[Output(v)] = output[Output(v)] /\ temp'[Output(v)] = temp[Output(v)]
  BY <1>2, <1>3 DEF IInv, Apart
<1>5. Path(v)' = Path(v) /\ Output(v)' = Output(v) /\ (v \in Running)' = (v \in Running)
  BY <1>2 DEF Path, Output, Running
<1>6. AsksAndLoads(v)'
  BY <1>1, <1>2, <1>5 DEF Knows, AsksAndLoads
<1>7. ASSUME v \notin disturbed'
      PROVE  HasModel(v)' /\ HasTemp(v)' /\ HasOutput(v)' /\ HasMeasured(v)' /\ HasAnswered(v)'
  <2>1. v \notin disturbed
    BY <1>2, <1>7
  <2>2. HasModel(v)'
    BY <1>1, <1>2, <1>5, <2>1 DEF Knows, HasModel
  <2>3. HasTemp(v)'
    BY <1>1, <1>2, <1>4, <1>5, <2>1 DEF Knows, HasTemp, Running
  <2>4. HasOutput(v)'
    BY <1>1, <1>2, <1>4, <1>5, <2>1 DEF Knows, HasOutput, Running
  <2>5. HasMeasured(v)'
    BY <1>1, <1>2, <1>4, <1>5, <2>1 DEF Knows, HasMeasured, Running
  <2>6. HasAnswered(v)'
    BY <1>1, <1>2, <1>5, <2>1 DEF Knows, HasAnswered, Converted
  <2> QED
    BY <2>2, <2>3, <2>4, <2>5, <2>6
<1> QED
  BY <1>6, <1>7 DEF Knows

\* Whoever has ended has nothing but the response.
LEMMA EndedKnows ==
  ASSUME IInv, NEW w \in Workers, End(w),
         UNCHANGED <<files, request, disturbed>>,
         w \notin disturbed => HasAnswered(w)'
  PROVE  Knows(w)'
<1>1. step'[w] = "ended" /\ results'[w] = <<>>
  BY DEF IInv, Typed, TypeOK, StepTypes, MemoryTypes, End, Goto
<1> QED
  BY <1>1 DEF Knows, AsksAndLoads, HasModel, HasTemp, HasOutput, HasMeasured, Running

LEMMA AnsweredKnows ==
  ASSUME IInv, NEW w \in Workers, NEW success, NEW reason, NEW rs,
         Answer(w, success, reason, rs), UNCHANGED <<files, request, disturbed>>,
         success /\ w \notin disturbed /\ request[w].command = "convert" =>
           /\ Holds(output[Output(w)], {"onnx", "invalid"})
           /\ info[w] = output[Output(w)].model
           /\ \A i \in DOMAIN rs : rs[i].of = output[Output(w)]
  PROVE  Knows(w)'
<1>1. answer'[w] = [success |-> success, reason |-> reason, info |-> info[w],
                    file |-> output[Output(w)], results |-> rs]
  BY DEF Answer, IInv, Typed, TypeOK
<1>2. w \notin disturbed => HasAnswered(w)'
  BY <1>1 DEF HasAnswered, Converted
<1> QED
  BY <1>2, EndedKnows DEF Answer

\* What a step of a process makes it know.
LEMMA OwnKnows ==
  ASSUME IInv, NEW w \in Workers, Process(w) \/ Terminate(w)
  PROVE  Knows(w)'
<1>1. Knows(w) /\ Path(w) \in Paths /\ Output(w) \in Outputs
  BY ConversionAssumption DEF IInv, Typed, TypeOK, StepTypes, Path, Output
<1>2. w \in Running /\ UNCHANGED <<source, request, disturbed>>
  BY ProcessFrame DEF IInv, Typed
<1>3. Path(w)' = Path(w) /\ Output(w)' = Output(w)
  BY <1>2 DEF Path, Output
<1>4. /\ source[Path(w)] \in Contents \cup {None}
      /\ output[Output(w)] \in Files /\ temp[Output(w)] \in Files
  BY <1>1 DEF IInv, Typed, TypeOK, FileTypes
<1>5. /\ None \notin Contents /\ Torn \notin Contents /\ None # Torn
      /\ \A f, formats : Holds(f, formats) /\ f \in Files => f \in Contents /\ f.format \in formats
  BY ConversionAssumption DEF Holds, Files
<1> DEFINE Still ==
      /\ step[w] # "benchmark" /\ UNCHANGED results
      /\ UNCHANGED answer
<1>6. ASSUME Still, step'[w] \notin {"ended", "benchmark"},
             step'[w] \in {"metadata", "described"} => request[w].command # "convert"
      PROVE  AsksAndLoads(w)'
  BY <1>1, <1>2, <1>6 DEF Knows, AsksAndLoads, Running
<1>7. ASSUME step'[w] # "ended" PROVE ~Converted(w)'
  BY <1>7 DEF Converted, Running
<1> USE DEF Goto, files, memory
<1>8. CASE AskConverter(w)
  <2>1. /\ step'[w] \in {"route", "load", "metadata"}
        /\ step'[w] = "metadata" => request[w].command # "convert"
    BY <1>8 DEF AskConverter, IInv, Typed, TypeOK, StepTypes
  <2>2. AsksAndLoads(w)'
    BY <1>6, <1>8, <2>1 DEF AskConverter
  <2> QED
    BY <1>7, <2>1, <2>2 DEF Knows, HasModel, HasTemp, HasOutput, HasMeasured, HasAnswered
<1>9. CASE NoConverter(w) \/ Fails(w)
  BY <1>9, AnsweredKnows DEF NoConverter, Fails
<1>10. CASE Load(w)
  <2>1. step'[w] \in {"temp", "open"} /\ step[w] = "load"
    BY <1>10 DEF Load, IInv, Typed, TypeOK, StepTypes
  <2>2. AsksAndLoads(w)'
    BY <1>6, <1>10, <2>1 DEF Load
  <2>3. loaded'[w] = source[Path(w)] /\ converter' = converter
    BY <1>10 DEF Load, IInv, Typed, TypeOK, MemoryTypes
  <2>4. Loadable(w, source[Path(w)])
    BY <1>10 DEF Load
  <2>5. source[Path(w)] \in Contents /\ (converter[w] = "ONNX" => source[Path(w)].format = "onnx")
    BY <1>4, <1>5, <2>4 DEF Loadable, Files
  <2>6. HasModel(w)'
    BY <1>2, <1>3, <2>3, <2>5 DEF HasModel
  <2> QED
    BY <1>7, <2>1, <2>2, <2>6 DEF Knows, HasTemp, HasOutput, HasMeasured, HasAnswered
<1>11. CASE SaveTemp(w)
  <2>1. /\ step'[w] \in {"temp saved", "read"} /\ step[w] \in {"temp", "temp saved"}
        /\ UNCHANGED memory
    BY <1>11 DEF SaveTemp, IInv, Typed, TypeOK, StepTypes
  <2>2. AsksAndLoads(w)'
    BY <1>6, <1>11, <2>1 DEF SaveTemp
  <2>3. w \notin disturbed => HasModel(w)'
    BY <1>1, <1>2, <1>3, <2>1 DEF Knows, HasModel
  <2>4. HasTemp(w)'
    BY <1>1, <1>3, <1>11 DEF SaveTemp, HasTemp, TempDirectory, IInv, Typed, TypeOK, FileTypes,
       StepTypes
  <2> QED
    BY <1>2, <1>7, <2>1, <2>2, <2>3, <2>4 DEF Knows, HasOutput, HasMeasured, HasAnswered
<1>12. CASE ReadTemp(w)
  <2>1. /\ step'[w] = "open" /\ step[w] = "read" /\ loaded'[w] = temp[Output(w)]
        /\ UNCHANGED converter
    BY <1>12 DEF ReadTemp, TempDirectory, IInv, Typed, TypeOK, StepTypes, MemoryTypes
  <2>2. AsksAndLoads(w)'
    BY <1>6, <1>12, <2>1 DEF ReadTemp
  <2>3. w \notin disturbed => loaded'[w].model = loaded[w].model
    <3>1. loaded[w] \in Contents
      BY <2>1 DEF IInv, Typed, Loaded
    <3>2. As(loaded[w], "savedModel").model = loaded[w].model
      BY <3>1, ContentTypes
    <3> QED
      BY <1>1, <2>1, <3>2 DEF Knows, HasTemp
  <2>4. w \notin disturbed => HasModel(w)'
    BY <1>1, <1>2, <1>3, <2>1, <2>3 DEF Knows, HasModel
  <2> QED
    BY <1>2, <1>7, <2>1, <2>2, <2>4 DEF Knows, HasTemp, HasOutput, HasMeasured, HasAnswered
<1>13. CASE OpenOutput(w)
  <2>1. step'[w] = "write" /\ step[w] = "open" /\ UNCHANGED memory
    BY <1>13 DEF OpenOutput, IInv, Typed, TypeOK, StepTypes
  <2>2. AsksAndLoads(w)'
    BY <1>6, <1>13, <2>1 DEF OpenOutput
  <2>3. w \notin disturbed => HasModel(w)'
    BY <1>1, <1>2, <1>3, <2>1 DEF Knows, HasModel
  <2> QED
    BY <1>2, <1>7, <2>1, <2>2, <2>3 DEF Knows, HasTemp, HasOutput, HasMeasured, HasAnswered
<1>14. CASE WriteOutput(w)
  <2>1. /\ step'[w] = (IF converter[w] = "ONNX" THEN "describe" ELSE "validate")
        /\ step[w] = "write" /\ UNCHANGED memory
    BY <1>14 DEF WriteOutput, IInv, Typed, TypeOK, StepTypes
  <2>2. AsksAndLoads(w)'
    BY <1>6, <1>14, <2>1 DEF WriteOutput
  <2>3. w \notin disturbed => HasModel(w)'
    BY <1>1, <1>2, <1>3, <2>1 DEF Knows, HasModel
  <2>4. ASSUME w \notin disturbed PROVE HasOutput(w)'
    <3>1. PICK file \in Written(w) : file # None /\ output' = [output EXCEPT ![Output(w)] = file]
      BY <1>14, <2>4 DEF WriteOutput
    <3>2. output'[Output(w)] = file
      BY <1>1, <3>1 DEF IInv, Typed, TypeOK, FileTypes
    <3>3. /\ loaded[w] \in Contents /\ source[Path(w)] \in Contents
          /\ loaded[w].model = source[Path(w)].model
          /\ converter[w] = "ONNX" => source[Path(w)].format = "onnx"
      BY <1>1, <2>1, <2>4 DEF Knows, HasModel, IInv, Typed, Loaded
    <3>4. /\ file \in Contents /\ file.model = source[Path(w)].model
          /\ file.format \in {"onnx", "invalid"}
          /\ converter[w] = "ONNX" /\ ~request[w].optimize => file.format = "onnx"
      <4>1. CASE converter[w] # "ONNX"
        <5>1. file \in {As(loaded[w], "onnx"), As(loaded[w], "invalid")}
          BY <3>1, <4>1 DEF Written
        <5>2. \A f \in {"onnx", "invalid"} :
                /\ As(loaded[w], f) \in Contents
                /\ As(loaded[w], f).model = loaded[w].model /\ As(loaded[w], f).format = f
          BY <3>3, ContentTypes
        <5> QED
          BY <3>3, <4>1, <5>1, <5>2
      <4>2. CASE converter[w] = "ONNX" /\ file = source[Path(w)]
        BY <3>3, <4>2
      <4>3. CASE /\ converter[w] = "ONNX" /\ request[w].optimize
                 /\ file \in {o \in Contents : /\ o.model = source[Path(w)].model
                                             /\ o.format \in {"onnx", "invalid"}}
        BY <4>3
      <4> QED
        BY <3>1, <3>3, <4>1, <4>2, <4>3 DEF Written
    <3> QED
      BY <1>2, <1>3, <2>1, <3>2, <3>3, <3>4 DEF HasOutput
  <2> QED
    BY <1>2, <1>7, <2>1, <2>2, <2>3, <2>4 DEF Knows, HasTemp, HasMeasured, HasAnswered
<1>15. CASE Validate(w)
  <2>1. /\ step'[w] = "describe" /\ step[w] = "validate" /\ UNCHANGED memory /\ UNCHANGED output
        /\ Holds(output[Output(w)], {"onnx"})
    BY <1>15 DEF Validate, IInv, Typed, TypeOK, StepTypes
  <2>2. AsksAndLoads(w)'
    BY <1>6, <1>15, <2>1 DEF Validate
  <2>3. w \notin disturbed => HasModel(w)'
    BY <1>1, <1>2, <1>3, <2>1 DEF Knows, HasModel
  <2>4. w \notin disturbed => HasOutput(w)'
    BY <1>1, <1>2, <1>3, <1>4, <1>5, <2>1 DEF Knows, HasOutput
  <2> QED
    BY <1>2, <1>7, <2>1, <2>2, <2>3, <2>4 DEF Knows, HasTemp, HasMeasured, HasAnswered
<1>16. CASE Describe(w)
  <2>1. /\ step'[w] = "benchmark" /\ step[w] = "describe"
        /\ UNCHANGED <<output, results, answer>>
        /\ info'[w] \in {loaded[w].model, output[Output(w)].model}
    BY <1>16 DEF Describe, DescribeLoaded, DescribeOutput, IInv, Typed, TypeOK, StepTypes,
       MemoryTypes
  <2>2. AsksAndLoads(w)'
    BY <1>1, <1>2, <2>1 DEF Knows, AsksAndLoads, Running
  <2>3. w \notin disturbed => HasOutput(w)'
    BY <1>1, <1>2, <1>3, <2>1 DEF Knows, HasOutput
  <2>4. results'[w] = <<>>
    BY <1>1, <2>1 DEF Knows, AsksAndLoads
  <2>5. w \notin disturbed => HasMeasured(w)'
    BY <1>1, <1>2, <1>3, <2>1, <2>4 DEF Knows, HasModel, HasOutput, HasMeasured
  <2> QED
    BY <1>2, <1>7, <2>1, <2>2, <2>3, <2>5 DEF Knows, HasModel, HasTemp, HasAnswered
<1>17. CASE MeasureProvider(w)
  <2>1. /\ step[w] = "benchmark" /\ UNCHANGED <<step, output, info, answer>>
    BY <1>17 DEF MeasureProvider
  <2>2. PICK r \in ProviderResults(Head(queue[w]), output[Output(w)],
                      Holds(output[Output(w)], {"onnx"}), request[w].iterations) :
          results' = [results EXCEPT ![w] = Append(@, r)]
    BY <1>17 DEF MeasureProvider
  <2>3. r.of = output[Output(w)]
    BY <2>2 DEF ProviderResults, Measurement
  <2>4. results'[w] = Append(results[w], r) /\ results[w] \in Seq(Measurements)
    BY <2>2 DEF IInv, Typed, TypeOK, MemoryTypes
  <2>5. \A i \in DOMAIN results'[w] :
          results'[w][i] = r \/ (i \in DOMAIN results[w] /\ results'[w][i] = results[w][i])
    BY <2>4
  <2>6. AsksAndLoads(w)'
    BY <1>1, <1>2, <2>1 DEF Knows, AsksAndLoads, Running
  <2>7. w \notin disturbed => HasOutput(w)'
    BY <1>1, <1>2, <1>3, <2>1 DEF Knows, HasOutput
  <2>8. w \notin disturbed => HasMeasured(w)'
    BY <1>1, <1>2, <1>3, <2>1, <2>3, <2>5 DEF Knows, HasMeasured
  <2> QED
    BY <1>2, <1>7, <2>1, <2>6, <2>7, <2>8 DEF Knows, HasModel, HasTemp, HasAnswered
<1>18. CASE AnswerConverted(w)
  <2>1. step[w] = "benchmark" /\ UNCHANGED <<files, request, disturbed>>
    BY <1>18 DEF AnswerConverted
  <2>2. w \notin disturbed =>
          /\ Holds(output[Output(w)], {"onnx", "invalid"})
          /\ info[w] = output[Output(w)].model
          /\ \A i \in DOMAIN results[w] : results[w][i].of = output[Output(w)]
    BY <1>1, <1>5, <2>1 DEF Knows, HasOutput, HasMeasured, Holds
  <2>3. CASE Answer(w, TRUE, "none", results[w])
    BY <2>1, <2>2, <2>3, AnsweredKnows
  <2>4. CASE Answer(w, TRUE, "benchmark error", <<>>)
    <3>1. DOMAIN <<>> = {}
      OBVIOUS
    <3> QED
      BY <2>1, <2>2, <2>4, <3>1, AnsweredKnows
  <2> QED
    BY <1>18, <2>3, <2>4 DEF AnswerConverted
<1>19. CASE ExtractMetadata(w)
  <2>1. step'[w] = "described" /\ step[w] = "metadata" /\ UNCHANGED <<results, answer>>
    BY <1>19 DEF ExtractMetadata, IInv, Typed, TypeOK, StepTypes
  <2>2. AsksAndLoads(w)'
    BY <1>1, <1>2, <2>1 DEF Knows, AsksAndLoads, Running
  <2> QED
    BY <1>7, <2>1, <2>2 DEF Knows, HasModel, HasTemp, HasOutput, HasMeasured, HasAnswered
<1>20. CASE AnswerMetadata(w)
  <2>1. request[w].command # "convert"
    BY <1>1, <1>20 DEF AnswerMetadata, Knows, AsksAndLoads
  <2> QED
    BY <1>20, <2>1, AnsweredKnows DEF AnswerMetadata
<1>21. CASE Terminate(w)
  <2>1. ~answer'[w].success
    BY <1>1, <1>2, <1>21 DEF Terminate, Knows, AsksAndLoads
  <2>2. HasAnswered(w)'
    BY <2>1 DEF HasAnswered, Converted
  <2> QED
    BY <1>21, <2>2, EndedKnows DEF Terminate
<1> QED
  BY <1>8, <1>9, <1>10, <1>11, <1>12, <1>13, <1>14, <1>15, <1>16, <1>17, <1>18, <1>19, <1>20,
     <1>21 DEF Process

\* A process that begins knows nothing yet; an edit disturbs those whose source it is.
LEMMA StartKnows ==
  ASSUME IInv, NEW w \in Workers, NEW r \in Requests, Start(w, r), NEW v \in Workers
  PROVE  Knows(v)'
<1>1. /\ w \notin Running /\ UNCHANGED <<files, converter, loaded, info, results>>
      /\ step' = [step EXCEPT ![w] = "route"] /\ request' = [request EXCEPT ![w] = r]
      /\ answer' = [answer EXCEPT ![w] = NoAnswer]
      /\ disturbed \ {w} \subseteq disturbed'
  BY DEF Start, Goto
<1>2. Knows(v)
  BY DEF IInv
<1>3. CASE v = w
  <2>1. /\ step'[v] = "route" /\ answer'[v] = NoAnswer /\ results'[v] = <<>>
    BY <1>1, <1>2, <1>3 DEF Knows, AsksAndLoads, Running, IInv, Typed, TypeOK, StepTypes
  <2>2. ~NoAnswer.success /\ NoAnswer.reason = "not asked"
    BY DEF NoAnswer
  <2> QED
    BY <2>1, <2>2 DEF Knows, AsksAndLoads, HasModel, HasTemp, HasOutput, HasMeasured, HasAnswered,
       Converted
<1>4. CASE v # w
  <2>1. /\ step'[v] = step[v] /\ request'[v] = request[v] /\ answer'[v] = answer[v]
        /\ UNCHANGED <<files, converter, loaded, info, results>>
        /\ v \notin disturbed' => v \notin disturbed
    BY <1>1, <1>4
  <2>2. AsksAndLoads(v)'
    BY <1>2, <2>1 DEF Knows, AsksAndLoads, Running
  <2>3. ASSUME v \notin disturbed'
        PROVE  HasModel(v)' /\ HasTemp(v)' /\ HasOutput(v)' /\ HasMeasured(v)' /\ HasAnswered(v)'
    BY <1>2, <2>1, <2>3 DEF files, Path, Output, Knows, HasModel, HasTemp, HasOutput, HasMeasured,
       HasAnswered, Converted, Running
  <2> QED
    BY <2>2, <2>3 DEF Knows
<1> QED
  BY <1>3, <1>4

LEMMA EditKnows ==
  ASSUME IInv, NEW e \in Edits, EditSource(e[1], e[2]), NEW v \in Workers
  PROVE  Knows(v)'
<1>1. /\ UNCHANGED <<output, temp, request, step, memory, answer>>
      /\ source' = [source EXCEPT ![e[1]] = e[2]]
      /\ disturbed' = disturbed \cup {w \in Running : Path(w) = e[1]}
  BY DEF EditSource
<1>2. Knows(v)
  BY DEF IInv
<1>3. AsksAndLoads(v)'
  BY <1>1, <1>2 DEF memory, Knows, AsksAndLoads, Running
<1>4. v \in Running /\ v \notin disturbed' => source'[Path(v)] = source[Path(v)]
  BY <1>1 DEF IInv, Typed, TypeOK, FileTypes
<1>5. ASSUME v \notin disturbed'
      PROVE  HasModel(v)' /\ HasTemp(v)' /\ HasOutput(v)' /\ HasMeasured(v)' /\ HasAnswered(v)'
  <2>1. v \notin disturbed
    BY <1>1, <1>5
  <2>2. HasModel(v)' /\ HasOutput(v)'
    BY <1>1, <1>2, <1>4, <1>5, <2>1 DEF memory, Path, Output, Running, Knows, HasModel, HasOutput
  <2>3. HasTemp(v)' /\ HasMeasured(v)' /\ HasAnswered(v)'
    BY <1>1, <1>2, <2>1 DEF memory, Output, Running, Knows, HasTemp, HasMeasured, HasAnswered,
       Converted
  <2> QED
    BY <2>2, <2>3
<1> QED
  BY <1>3, <1>5 DEF Knows

\* A process with another's output is disturbed from the later start on.
LEMMA StepApart == IInv /\ [Next]_vars => Apart'
<1> SUFFICES ASSUME IInv, [Next]_vars, NEW v \in Running', NEW u \in Running', v # u,
                    Output(v)' = Output(u)'
             PROVE  u \in disturbed'
  BY DEF Apart
<1>1. v \in Workers /\ u \in Workers
  BY DEF Running
<1>2. ASSUME NEW w \in Workers, NEW r \in Requests, Start(w, r) PROVE u \in disturbed'
  <2>1. /\ w \notin Running
        /\ step' = [step EXCEPT ![w] = "route"] /\ request' = [request EXCEPT ![w] = r]
        /\ disturbed' = (disturbed \ {w}) \cup {x \in Running : Output(x) = r.output}
                           \cup (IF {x \in Running : Output(x) = r.output} = {} THEN {} ELSE {w})
    BY <1>2 DEF Start, Goto
  <2>2. \A x \in Workers \ {w} : Output(x)' = Output(x) /\ (x \in Running' => x \in Running)
    BY <2>1 DEF Output, Running, IInv, Typed, TypeOK, StepTypes
  <2>3. Output(w)' = r.output
    BY <2>1 DEF Output, IInv, Typed, TypeOK, StepTypes
  <2>4. CASE u = w
    BY <1>1, <2>1, <2>2, <2>3, <2>4
  <2>5. CASE u # w /\ v = w
    BY <1>1, <2>1, <2>2, <2>3, <2>5
  <2>6. CASE u # w /\ v # w
    BY <1>1, <2>1, <2>2, <2>6 DEF IInv, Apart
  <2> QED
    BY <2>4, <2>5, <2>6
<1>3. ASSUME NEW w \in Workers, Process(w) \/ Terminate(w) PROVE u \in disturbed'
  <2>1. /\ w \in Running /\ UNCHANGED <<request, disturbed>>
        /\ \A x \in Workers \ {w} : step'[x] = step[x]
    BY <1>3, ProcessFrame DEF IInv, Typed
  <2>2. v \in Running /\ u \in Running /\ Output(v) = Output(u)
    BY <1>1, <2>1 DEF Running, Output
  <2> QED
    BY <2>1, <2>2 DEF IInv, Apart
<1>4. CASE (\E e \in Edits : EditSource(e[1], e[2])) \/ UNCHANGED vars
  <2>1. UNCHANGED <<step, request>> /\ disturbed \subseteq disturbed'
    BY <1>4 DEF EditSource, vars
  <2>2. v \in Running /\ u \in Running /\ Output(v) = Output(u)
    BY <2>1 DEF Running, Output
  <2> QED
    BY <2>1, <2>2 DEF IInv, Apart
<1> QED
  BY <1>2, <1>3, <1>4 DEF Next

\* A process loses its model only with its end.
LEMMA StepLoaded == Typed /\ [Next]_vars => Loaded'
<1> SUFFICES ASSUME Typed, [Next]_vars, NEW v \in Workers,
                    step'[v] \in {"temp", "temp saved", "read", "open", "write", "validate",
                                  "describe"}
             PROVE  loaded'[v] \in Contents
  BY DEF Loaded
<1>1. ASSUME NEW w \in Workers, NEW r \in Requests, Start(w, r) PROVE loaded'[v] \in Contents
  BY <1>1 DEF Start, Goto, Typed, TypeOK, StepTypes, Loaded
<1>2. ASSUME NEW w \in Workers, Process(w) \/ Terminate(w) PROVE loaded'[v] \in Contents
  <2>1. CASE v # w
    BY <1>2, <2>1, ProcessFrame DEF Typed, Loaded
  <2>2. CASE v = w /\ (Load(w) \/ ReadTemp(w))
    <3>1. /\ Path(w) \in Paths /\ Output(w) \in Outputs
      BY ConversionAssumption DEF Typed, TypeOK, StepTypes, Path, Output
    <3>2. source[Path(w)] \in Contents \cup {None} /\ temp[Output(w)] \in Files
      BY <3>1 DEF Typed, TypeOK, FileTypes
    <3>3. loaded'[w] \in {source[Path(w)], temp[Output(w)]} \ {None, Torn}
      BY <2>2 DEF Load, Loadable, Holds, ReadTemp, TempDirectory, Typed, TypeOK, MemoryTypes
    <3> QED
      BY <2>2, <3>2, <3>3 DEF Files
  <2>3. CASE v = w /\ (AskConverter(w) \/ SaveTemp(w) \/ OpenOutput(w) \/ WriteOutput(w)
                        \/ Validate(w) \/ Describe(w) \/ MeasureProvider(w)
                        \/ ExtractMetadata(w))
    <3>1. loaded' = loaded
      BY <2>3 DEF AskConverter, SaveTemp, OpenOutput, WriteOutput, Validate, Describe,
         MeasureProvider, ExtractMetadata, memory
    <3>2. step[w] \in {"temp", "temp saved", "read", "open", "write", "validate", "describe"}
      BY <2>3 DEF AskConverter, SaveTemp, OpenOutput, WriteOutput, Validate, Describe,
         MeasureProvider, ExtractMetadata, Goto, Typed, TypeOK, StepTypes
    <3> QED
      BY <2>3, <3>1, <3>2 DEF Typed, Loaded
  <2>4. CASE v = w /\ End(w)
    BY <2>4 DEF End, Goto, Typed, TypeOK, StepTypes
  <2>5. NoConverter(w) \/ AnswerConverted(w) \/ AnswerMetadata(w) \/ Fails(w) \/ Terminate(w)
          => End(w)
    BY DEF NoConverter, AnswerConverted, AnswerMetadata, Fails, Terminate, Answer
  <2> QED
    BY <1>2, <2>1, <2>2, <2>3, <2>4, <2>5 DEF Process
<1>3. CASE (\E e \in Edits : EditSource(e[1], e[2])) \/ UNCHANGED vars
  BY <1>3 DEF EditSource, vars, memory, Typed, Loaded
<1> QED
  BY <1>1, <1>2, <1>3 DEF Next

LEMMA InitInv == Init => IInv
<1> SUFFICES ASSUME Init PROVE IInv
  OBVIOUS
<1>1. ASSUME NEW w \in Workers PROVE Knows(w)
  BY DEF Init, Knows, AsksAndLoads, HasModel, HasTemp, HasOutput, HasMeasured, HasAnswered,
     Converted, NoAnswer, Running
<1>2. Apart
  BY DEF Init, Apart, Running
<1> QED
  BY <1>1, <1>2, InitTypes DEF IInv

\* IInv is an inductive invariant.
THEOREM Invariance == Spec => []IInv
<1>1. IInv /\ [Next]_vars => IInv'
  <2> SUFFICES ASSUME IInv, [Next]_vars PROVE IInv'
    OBVIOUS
  <2>1. Typed'
    BY NextTypes, StepLoaded DEF IInv, Typed
  <2>2. ASSUME NEW v \in Workers PROVE Knows(v)'
    <3>1. ASSUME NEW w \in Workers, Process(w) \/ Terminate(w) PROVE Knows(v)'
      BY <3>1, OwnKnows, OthersKnow
    <3>2. CASE UNCHANGED vars
      BY <3>2 DEF vars, files, memory, IInv, Knows, AsksAndLoads, HasModel, HasTemp, HasOutput,
         HasMeasured, HasAnswered, Converted, Running, Path, Output
    <3> QED
      BY <3>1, <3>2, StartKnows, EditKnows DEF Next
  <2> QED
    BY <2>1, <2>2, StepApart DEF IInv
<1> QED
  BY InitInv, <1>1, PTL DEF Spec

\* Types of the state: for any number of processes and whatever the libraries do, a
\* process past its routing has a converter and is asked for in one of the sequences of
\* converters or providers.
THEOREM TypeCorrect == Spec => []TypeOK
<1>1. IInv => TypeOK
  BY DEF IInv, Typed
<1> QED
  BY Invariance, <1>1, PTL

\* The description and every measurement in a response to a process that nobody
\* disturbed are of the file that it names.
THEOREM AnswersDescribeOutput == Spec => []AnswerDescribesOutput
<1>1. IInv => AnswerDescribesOutput
  BY DEF IInv, Knows, HasAnswered, AnswerDescribesOutput
<1> QED
  BY Invariance, <1>1, PTL

-----------------------------------------------------------------------------
(* The refinement *)

\* The job of a running process is one of the contract's.
LEMMA JobTypes ==
  ASSUME TypeOK, NEW w \in Running
  PROVE  /\ Job(w) \in Contract!Jobs /\ Job(w) # None
         /\ Job(w).path = Path(w) /\ Job(w).output = Output(w)
         /\ Job(w).checked = (request[w].command = "convert" /\ ~request[w].optimize)
<1>1. Path(w) \in Paths /\ Output(w) \in Outputs
  BY ConversionAssumption DEF TypeOK, StepTypes, Path, Output, Running
<1>2. Job(w) = [path |-> Path(w), output |-> Output(w),
                checked |-> request[w].command = "convert" /\ ~request[w].optimize]
  BY DEF Job
<1>3. Job(w) \in Contract!Jobs
  BY <1>1, <1>2 DEF Contract!Jobs
<1>4. Job(w) # None
  BY <1>3, ConversionAssumption DEF Contract!Jobs
<1> QED
  BY <1>2, <1>3, <1>4

LEMMA SameRunning == TypeOK => Contract!Running = Running
<1>1. ASSUME TypeOK, NEW w \in Workers PROVE Job(w) # None <=> w \in Running
  BY <1>1, JobTypes DEF Job
<1> QED
  BY <1>1 DEF Contract!Running, Running

\* How a step of one process changes the jobs and the verdicts.
LEMMA OneJob ==
  ASSUME TypeOK, NEW w \in Workers,
         \A v \in Workers \ {w} :
           step'[v] = step[v] /\ request'[v] = request[v] /\ answer'[v] = answer[v]
  PROVE  /\ [v \in Workers |-> Job(v)]' = [[v \in Workers |-> Job(v)] EXCEPT ![w] = Job(w)']
         /\ [v \in Workers |-> Verdict(v)]'
              = [[v \in Workers |-> Verdict(v)] EXCEPT ![w] = Verdict(w)']
<1>1. \A v \in Workers \ {w} : Job(v)' = Job(v) /\ Verdict(v)' = Verdict(v)
  BY DEF Job, Verdict, Running, Path, Output
<1> QED
  BY <1>1

LEMMA StartBegins ==
  ASSUME IInv, NEW w \in Workers, NEW r \in Requests, Start(w, r)
  PROVE  Contract!Begin(w)
<1> DEFINE j == [path |-> r.path, output |-> r.output,
                 checked |-> r.command = "convert" /\ ~r.optimize]
<1>1. j \in Contract!Jobs
  BY ConversionAssumption DEF Contract!Jobs
<1>2. /\ w \notin Running /\ UNCHANGED <<source, output>>
      /\ step' = [step EXCEPT ![w] = "route"] /\ request' = [request EXCEPT ![w] = r]
      /\ answer' = [answer EXCEPT ![w] = NoAnswer]
      /\ disturbed' = (disturbed \ {w}) \cup {x \in Running : Output(x) = r.output}
                         \cup (IF {x \in Running : Output(x) = r.output} = {} THEN {} ELSE {w})
  BY DEF Start, Goto, files
<1>3. step'[w] = "route" /\ request'[w] = r /\ answer'[w] = NoAnswer
  BY <1>2 DEF IInv, Typed, TypeOK, StepTypes
<1>4. Job(w)' = j /\ Verdict(w)' = "none"
  BY <1>3 DEF Job, Verdict, Running, Path, Output
<1>5. /\ [v \in Workers |-> Job(v)]' = [[v \in Workers |-> Job(v)] EXCEPT ![w] = j]
      /\ [v \in Workers |-> Verdict(v)]' = [[v \in Workers |-> Verdict(v)] EXCEPT ![w] = "none"]
  <2>1. \A v \in Workers \ {w} :
          step'[v] = step[v] /\ request'[v] = request[v] /\ answer'[v] = answer[v]
    BY <1>2 DEF IInv, Typed, TypeOK, StepTypes
  <2> HIDE DEF j
  <2> QED
    BY <1>4, <2>1, OneJob DEF IInv, Typed
<1>6. Contract!Running = Running
  BY SameRunning DEF IInv, Typed
<1>7. {x \in Contract!Running : [v \in Workers |-> Job(v)][x].output = j.output}
        = {x \in Running : Output(x) = r.output}
  <2>1. \A x \in Running : x \in Workers /\ Job(x).output = Output(x)
    BY JobTypes DEF IInv, Typed, Running
  <2> QED
    BY <1>6, <2>1
<1> HIDE DEF j
<1> QED
  BY <1>1, <1>2, <1>5, <1>6, <1>7 DEF Contract!Begin

\* Every step of a process is one of a running job.
LEMMA ProcessJob ==
  ASSUME IInv, NEW w \in Workers, Process(w) \/ Terminate(w)
  PROVE  /\ w \in Contract!Running /\ [v \in Workers |-> Job(v)][w] = Job(w)
         /\ UNCHANGED <<source, request, disturbed>>
         /\ [v \in Workers |-> Job(v)]' = [[v \in Workers |-> Job(v)] EXCEPT ![w] = Job(w)']
         /\ [v \in Workers |-> Verdict(v)]'
              = [[v \in Workers |-> Verdict(v)] EXCEPT ![w] = Verdict(w)']
         /\ Verdict(w) = "none"
<1>1. /\ w \in Running /\ UNCHANGED <<source, request, disturbed>>
      /\ \A v \in Workers \ {w} : step'[v] = step[v] /\ answer'[v] = answer[v]
  BY ProcessFrame DEF IInv, Typed
<1>2. Contract!Running = Running
  BY SameRunning DEF IInv, Typed
<1>3. Verdict(w) = "none"
  BY <1>1 DEF Verdict
<1> QED
  BY <1>1, <1>2, <1>3, OneJob DEF IInv, Typed

\* A process that goes on keeps its job and has no verdict.
LEMMA Continues ==
  ASSUME IInv, NEW w \in Workers, Process(w), step'[w] # "ended"
  PROVE  UNCHANGED <<[v \in Workers |-> Job(v)], [v \in Workers |-> Verdict(v)]>>
<1>1. w \in Running /\ w \in Running' /\ request' = request
  BY ProcessFrame DEF IInv, Typed, Running
<1>2. Job(w)' = Job(w) /\ Verdict(w)' = Verdict(w)
  BY <1>1 DEF Job, Verdict, Path, Output
<1> QED
  BY <1>2, ProcessJob

\* And one that ends has what its response says.
LEMMA Answers ==
  ASSUME IInv, NEW w \in Workers, Process(w), NEW success \in BOOLEAN,
         NEW reason \in {"none", "no converter", "benchmark error", "error"}, NEW rs,
         Answer(w, success, reason, rs), UNCHANGED output,
         success => w \in disturbed \/ ~Job(w).checked
                      \/ output[Job(w).output] = OnnxForm(source[Job(w).path])
  PROVE  Contract!Succeed(w) \/ Contract!Fail(w)
<1>1. /\ step'[w] = "ended" /\ answer'[w].reason = reason /\ answer'[w].success = success
  BY DEF Answer, End, Goto, IInv, Typed, TypeOK, StepTypes
<1>2. Job(w)' = None /\ Verdict(w)' = (IF success THEN "success" ELSE "failure")
  BY <1>1 DEF Job, Verdict, Running
<1>3. CASE success
  BY <1>2, <1>3, ProcessJob DEF Contract!Succeed
<1>4. CASE ~success
  BY <1>2, <1>4, ProcessJob DEF Contract!Fail
<1> QED
  BY <1>3, <1>4

LEMMA ProcessImplements ==
  ASSUME IInv, NEW w \in Workers, Process(w)
  PROVE  [Contract!Next]_Contract!vars
<1>1. Output(w) \in Outputs /\ Path(w) \in Paths
  BY ConversionAssumption DEF IInv, Typed, TypeOK, StepTypes, Path, Output
<1>2. /\ Job(w).path = Path(w) /\ Job(w).output = Output(w)
      /\ Job(w).checked = (request[w].command = "convert" /\ ~request[w].optimize)
  BY JobTypes, ProcessFrame DEF IInv, Typed
<1>3. CASE /\ AskConverter(w) \/ Load(w) \/ SaveTemp(w) \/ ReadTemp(w) \/ Validate(w)
              \/ Describe(w) \/ MeasureProvider(w) \/ ExtractMetadata(w)
  <2>1. step'[w] # "ended" /\ output' = output
    BY <1>3 DEF AskConverter, Load, SaveTemp, ReadTemp, Validate, Describe, MeasureProvider,
       ExtractMetadata, Goto, files, IInv, Typed, TypeOK, StepTypes
  <2> QED
    BY <2>1, Continues, ProcessJob DEF Contract!vars
<1>4. CASE OpenOutput(w) \/ WriteOutput(w)
  <2>1. step'[w] # "ended"
    BY <1>4 DEF OpenOutput, WriteOutput, Goto, IInv, Typed, TypeOK, StepTypes
  <2>2. output' \in [Outputs -> Files]
    BY NextTypes DEF Next, IInv, Typed, TypeOK, FileTypes
  <2>3. \E c : output' = [output EXCEPT ![Output(w)] = c]
    BY <1>4 DEF OpenOutput, WriteOutput
  <2>4. \E c \in Files : output' = [output EXCEPT ![Output(w)] = c]
    BY <1>1, <2>2, <2>3 DEF IInv, Typed, TypeOK, FileTypes
  <2>5. Contract!Write(w)
    BY <1>2, <2>1, <2>4, Continues, ProcessJob DEF Contract!Write
  <2> QED
    BY <2>5 DEF Contract!Next
<1>5. CASE NoConverter(w) \/ Fails(w)
  <2>1. Contract!Succeed(w) \/ Contract!Fail(w)
    BY <1>5, Answers DEF NoConverter, Fails, files
  <2> QED
    BY <2>1 DEF Contract!Next
<1>6. CASE AnswerConverted(w)
  <2>1. w \in disturbed \/ ~Job(w).checked
           \/ output[Job(w).output] = OnnxForm(source[Job(w).path])
    <3>1. SUFFICES ASSUME w \notin disturbed, Job(w).checked
                   PROVE  output[Output(w)] = OnnxForm(source[Path(w)])
      BY <1>2
    <3>2. HasOutput(w) /\ step[w] = "benchmark" /\ ~request[w].optimize
      BY <1>2, <1>6, <3>1 DEF AnswerConverted, IInv, Knows
    <3>3. /\ source[Path(w)] \in Contents /\ output[Output(w)] \in Contents
          /\ output[Output(w)].model = source[Path(w)].model
          /\ output[Output(w)].format = "onnx"
      BY <3>2 DEF HasOutput
    <3>4. output[Output(w)] = As(source[Path(w)], "onnx")
      BY <3>3 DEF As, Contents
    <3> QED
      BY <3>3, <3>4, ConversionAssumption DEF OnnxForm
  <2>2. Contract!Succeed(w) \/ Contract!Fail(w)
    BY <1>6, <2>1, Answers DEF AnswerConverted, files
  <2> QED
    BY <2>2 DEF Contract!Next
<1>7. CASE AnswerMetadata(w)
  <2>1. ~Job(w).checked
    BY <1>2, <1>7 DEF AnswerMetadata, IInv, Knows, AsksAndLoads
  <2>2. Contract!Succeed(w) \/ Contract!Fail(w)
    BY <1>7, <2>1, Answers DEF AnswerMetadata, files
  <2> QED
    BY <2>2 DEF Contract!Next
<1> QED
  BY <1>3, <1>4, <1>5, <1>6, <1>7 DEF Process

LEMMA TerminateImplements ==
  ASSUME IInv, NEW w \in Workers, Terminate(w)
  PROVE  Contract!Fail(w)
<1>1. /\ step'[w] = "ended" /\ answer' = answer /\ answer[w].reason = "not asked"
      /\ UNCHANGED <<source, output, disturbed>>
  BY DEF Terminate, End, Goto, files, IInv, Typed, TypeOK, StepTypes, Knows, AsksAndLoads
<1>2. Job(w)' = None /\ Verdict(w)' = "none"
  BY <1>1 DEF Job, Verdict, Running
<1> QED
  BY <1>1, <1>2, ProcessJob DEF Contract!Fail

LEMMA EditImplements ==
  ASSUME IInv, NEW e \in Edits, EditSource(e[1], e[2])
  PROVE  Contract!Edit
<1>1. /\ UNCHANGED <<output, request, step, answer>>
      /\ source' = [source EXCEPT ![e[1]] = e[2]]
      /\ disturbed' = disturbed \cup {w \in Running : Path(w) = e[1]}
  BY DEF EditSource
<1>2. e[1] \in Paths /\ e[2] \in Files
  BY ConversionAssumption DEF Files
<1>3. \A v \in Workers : Job(v)' = Job(v) /\ Verdict(v)' = Verdict(v)
  BY <1>1 DEF Job, Verdict, Running, Path, Output
<1>4. Contract!Running = Running
  BY SameRunning DEF IInv, Typed
<1>5. {w \in Contract!Running : [v \in Workers |-> Job(v)][w].path = e[1]}
        = {w \in Running : Path(w) = e[1]}
  <2>1. \A x \in Running : x \in Workers /\ Job(x).path = Path(x)
    BY JobTypes DEF IInv, Typed, Running
  <2> QED
    BY <1>4, <2>1
<1> QED
  BY <1>1, <1>2, <1>3, <1>5 DEF Contract!Edit

\* The converter processes keep what the service relies on (ConversionContract): a
\* success that nobody disturbed is the valid ONNX form of its source, and no process
\* writes to an output that is not its own.
THEOREM ConversionsKeepContract == Spec => ImplementsContract
<1>1. Init => Contract!Init
  <2> SUFFICES ASSUME Init PROVE Contract!Init
    OBVIOUS
  <2>1. source \in [Paths -> Files] /\ output \in [Outputs -> Files] /\ disturbed = {}
    BY ConversionAssumption DEF Init, Files
  <2>2. \A w \in Workers : Job(w) = None /\ Verdict(w) = "none"
    BY DEF Init, Job, Verdict, Running, NoAnswer
  <2> QED
    BY <2>1, <2>2 DEF Contract!Init
<1>2. IInv /\ [Next]_vars => [Contract!Next]_Contract!vars
  <2> SUFFICES ASSUME IInv, [Next]_vars PROVE [Contract!Next]_Contract!vars
    OBVIOUS
  <2>1. ASSUME NEW w \in Workers, NEW r \in Requests, Start(w, r)
        PROVE  [Contract!Next]_Contract!vars
    BY <2>1, StartBegins DEF Contract!Next
  <2>2. ASSUME NEW w \in Workers, Terminate(w) PROVE [Contract!Next]_Contract!vars
    BY <2>2, TerminateImplements DEF Contract!Next
  <2>3. ASSUME NEW e \in Edits, EditSource(e[1], e[2]) PROVE [Contract!Next]_Contract!vars
    BY <2>3, EditImplements DEF Contract!Next
  <2>4. CASE UNCHANGED vars
    BY <2>4 DEF vars, files, memory, Contract!vars, Job, Verdict, Running, Path, Output
  <2> QED
    BY <2>1, <2>2, <2>3, <2>4, ProcessImplements DEF Next
<1> QED
  BY <1>1, <1>2, Invariance, PTL DEF Spec, ImplementsContract, Contract!Spec

-----------------------------------------------------------------------------
(* The summary of a benchmark *)

\* A set of natural numbers has a least one: < is well founded.
LEMMA LeastNatural ==
  ASSUME NEW S, S \subseteq Nat, S # {}
  PROVE  \E n \in S : \A m \in S : n <= m
<1> DEFINE R == OpToRel(<, Nat)
<1>1. \A x, y \in Nat : x < y => <<x, y>> \in R
  BY DEF OpToRel
<1>2. \E x \in S : \A y \in S : <<y, x>> \notin R
  BY NatLessThanWellFounded, WFMin, Zenon
<1> HIDE DEF R
<1>3. PICK n \in S : \A m \in S : <<m, n>> \notin R
  BY <1>2
<1>4. \A m \in S : ~(m < n)
  BY <1>1, <1>3
<1> QED
  BY <1>4

LEMMA ResultTypes ==
  ASSUME NEW rs \in Seq(Measurements)
  PROVE  /\ DOMAIN rs \subseteq Nat
         /\ \A i \in DOMAIN rs : /\ rs[i].mean \in Nat /\ rs[i].success \in BOOLEAN
                                 /\ rs[i].provider \in ProviderNames
         /\ Successful(rs) \subseteq DOMAIN rs /\ CpuResults(rs) \subseteq Successful(rs)
<1>1. DOMAIN rs \subseteq Nat /\ \A i \in DOMAIN rs : rs[i] \in Measurements
  OBVIOUS
<1>2. \A m \in Measurements :
        m.mean \in Nat /\ m.success \in BOOLEAN /\ m.provider \in ProviderNames
  BY BenchmarkAssumption DEF Measurements
<1> QED
  BY <1>1, <1>2 DEF Successful, CpuResults

\* min, with the latency as its key, finds the first of the successful results that are
\* least: there is one, as the least mean is that of some result, and the least index
\* of those with that mean is the first.
LEMMA FastestIsLeast ==
  ASSUME NEW rs \in Seq(Measurements), Successful(rs) # {}
  PROVE  /\ Fastest(rs) \in Successful(rs)
         /\ \A j \in Successful(rs) : rs[Fastest(rs)].mean <= rs[j].mean
<1> DEFINE means == {rs[i].mean : i \in Successful(rs)}
           P(i) == \A j \in Successful(rs) :
                     \/ rs[i].mean < rs[j].mean
                     \/ rs[i].mean = rs[j].mean /\ i <= j
<1>1. \A i \in Successful(rs) : rs[i].mean \in Nat /\ i \in Nat
  BY ResultTypes
<1>2. PICK k \in Successful(rs) : \A j \in Successful(rs) : rs[k].mean <= rs[j].mean
  <2>1. means \subseteq Nat /\ means # {}
    BY <1>1
  <2>2. PICK least \in means : \A m \in means : least <= m
    BY <2>1, LeastNatural
  <2> QED
    BY <2>2
<1> DEFINE firsts == {i \in Successful(rs) : rs[i].mean = rs[k].mean}
<1>3. PICK f \in firsts : \A i \in firsts : f <= i
  <2>1. firsts \subseteq Nat /\ k \in firsts
    BY <1>1, <1>2
  <2> HIDE DEF firsts
  <2> QED
    BY <2>1, LeastNatural
<1>4. f \in Successful(rs) /\ P(f)
  <2> SUFFICES ASSUME NEW j \in Successful(rs)
               PROVE  \/ rs[f].mean < rs[j].mean
                      \/ rs[f].mean = rs[j].mean /\ f <= j
    BY <1>3
  <2>1. rs[f].mean = rs[k].mean /\ rs[k].mean <= rs[j].mean
    BY <1>2, <1>3
  <2>2. rs[j].mean = rs[k].mean => f <= j
    BY <1>3
  <2> QED
    BY <1>1, <1>2, <2>1, <2>2
<1>5. Fastest(rs) = CHOOSE i \in Successful(rs) : P(i)
  BY DEF Fastest
<1> HIDE DEF P
<1>6. Fastest(rs) \in Successful(rs) /\ P(Fastest(rs))
  BY <1>4, <1>5
<1> QED
  BY <1>1, <1>6 DEF P

\* The baseline is the mean of a CPU result that succeeded, when there is one.
LEMMA BaselineIsMeasured ==
  ASSUME NEW rs \in Seq(Measurements), Baseline(rs) # 0
  PROVE  \E i \in CpuResults(rs) : Baseline(rs) = rs[i].mean
<1>1. CpuResults(rs) # {}
  BY DEF Baseline
<1>2. CpuResults(rs) \subseteq Nat
  BY ResultTypes
<1> DEFINE P(i) == \A j \in CpuResults(rs) : i <= j
           first == CHOOSE i \in CpuResults(rs) : P(i)
<1>3. \E i \in CpuResults(rs) : P(i)
  BY <1>1, <1>2, LeastNatural
<1>4. first \in CpuResults(rs)
  <2> HIDE DEF P
  <2> QED
    BY <1>3
<1>5. Baseline(rs) = rs[first].mean
  BY <1>1 DEF Baseline
<1> HIDE DEF first
<1> QED
  BY <1>4, <1>5

\* What _compute_summary says of any list of results.
LEMMA SummarySound ==
  ASSUME NEW rs \in Seq(Measurements)
  PROVE  LET s == Summary(rs) IN
         IF \A r \in {s.results[i] : i \in DOMAIN s.results} : ~r.success
         THEN s.fastest = NoProvider /\ s.speedup = <<1, 1>>
         ELSE /\ \E i \in DOMAIN s.results :
                   /\ s.results[i].provider = s.fastest /\ s.results[i].success
                   /\ s.results[i].mean = s.best
                   /\ \A j \in DOMAIN s.results :
                        s.results[j].success => s.best <= s.results[j].mean
              /\ s.speedup[1] >= s.speedup[2]
              /\ s.speedup[1] > s.speedup[2] =>
                   \E i \in DOMAIN s.results :
                     /\ s.results[i].provider = "CPU" /\ s.results[i].success
                     /\ s.results[i].mean > s.best
<1> DEFINE s == Summary(rs)
<1>1. /\ s.results = rs /\ s.best = Best(rs) /\ s.speedup = Speedup(rs)
      /\ s.fastest = IF Successful(rs) = {} THEN NoProvider ELSE rs[Fastest(rs)].provider
  BY DEF Summary
<1> HIDE DEF s
<1>2. (\A r \in {rs[i] : i \in DOMAIN rs} : ~r.success) <=> Successful(rs) = {}
  BY DEF Successful
<1>3. CASE Successful(rs) = {}
  <2>1. s.fastest = NoProvider /\ s.speedup = <<1, 1>>
    BY <1>1, <1>3 DEF Best, Speedup
  <2> QED
    BY <1>1, <1>2, <1>3, <2>1 DEF s
<1>4. CASE Successful(rs) # {}
  <2> DEFINE f == Fastest(rs)
             b == Best(rs)
             c == Baseline(rs)
  <2>1. /\ f \in DOMAIN rs /\ rs[f].success /\ rs[f].mean \in Nat /\ b = rs[f].mean
        /\ \A j \in DOMAIN rs : rs[j].success => rs[f].mean <= rs[j].mean
    BY <1>4, FastestIsLeast, ResultTypes DEF Successful, Best
  <2>2. rs[f].provider = s.fastest
    BY <1>1, <1>4
  <2>3. Speedup(rs) = IF c > 0 /\ b > 0 THEN <<c, b>> ELSE <<1, 1>>
    BY DEF Speedup
  <2>4. c = 0 \/ \E i \in DOMAIN rs : /\ rs[i].provider = "CPU" /\ rs[i].success
                                      /\ rs[i].mean = c
    BY BaselineIsMeasured DEF CpuResults
  <2> HIDE DEF f, b, c
  <2>5. \A i \in DOMAIN rs : rs[i].mean \in Nat
    BY ResultTypes
  <2>6. /\ Speedup(rs)[1] >= Speedup(rs)[2]
        /\ Speedup(rs)[1] > Speedup(rs)[2] =>
             \E i \in DOMAIN rs :
               rs[i].provider = "CPU" /\ rs[i].success /\ rs[i].mean > b
    <3>1. CASE c > 0 /\ b > 0
      <4>1. PICK i \in DOMAIN rs : rs[i].provider = "CPU" /\ rs[i].success /\ rs[i].mean = c
        BY <2>4, <3>1
      <4>2. b <= rs[i].mean
        BY <2>1, <4>1
      <4> QED
        BY <2>1, <2>3, <2>5, <3>1, <4>1, <4>2
    <3>2. CASE ~(c > 0 /\ b > 0)
      BY <2>3, <3>2
    <3> QED
      BY <3>1, <3>2
  <2>7. /\ \E i \in DOMAIN rs :
             /\ rs[i].provider = s.fastest /\ rs[i].success /\ rs[i].mean = b
             /\ \A j \in DOMAIN rs : rs[j].success => b <= rs[j].mean
    BY <2>1, <2>2
  <2>8. s.best = b
    BY <1>1 DEF b
  <2> QED
    BY <1>1, <1>2, <1>4, <2>6, <2>7, <2>8 DEF s
<1> QED
  BY <1>3, <1>4

\* Whatever the providers and however the measurements turn out: the provider that a
\* response calls the fastest has run the model and none was faster, and a speedup is
\* claimed only over a CPU that was measured and is slower.
THEOREM SummariesAreSound == Spec => []BenchmarkSound
<1>1. TypeOK => BenchmarkSound
  <2> SUFFICES ASSUME TypeOK, NEW w \in Workers
               PROVE  answer[w].results \in Seq(Measurements)
    BY SummarySound DEF BenchmarkSound
  <2>1. answer[w] \in Responses
    BY DEF TypeOK
  <2> QED
    BY <2>1 DEF Responses
<1> QED
  BY <1>1, TypeCorrect, PTL

-----------------------------------------------------------------------------
(* Routing *)

\* No path holds what its name may not be used for.
FormatsFit == \A p \in Paths : source[p] # None => source[p].format \in MayHold[p]

\* A process that nobody disturbs has refused a source with every converter that it will
\* not ask again, asks TensorFlow first for a SavedModel, and has the right converter
\* when it has one.
Routed(w) ==
  /\ step[w] = "route" =>
       /\ \A c \in Converters :
            CanConvert(c, Path(w)) => \E i \in DOMAIN queue[w] : queue[w][i] = c
       /\ Holds(source[Path(w)], {"savedModel"}) =>
            queue[w] # <<>> /\ Head(queue[w]) = "TensorFlow"
  /\ step[w] \in {"load", "metadata"} =>
       source[Path(w)] # None /\ converter[w] = Owner[source[Path(w)].format]

RInv == FormatsFit /\ \A w \in Running \ disturbed : Routed(w)

\* Which converters accept a source: its own, and CoreML a file whose name says so.
LEMMA WhoConverts ==
  ASSUME NamesTell, TypeOK, FormatsFit, NEW p \in Paths, NEW c \in Converters,
         CanConvert(c, p)
  PROVE  /\ source[p] # None
         /\ c = Owner[source[p].format] \/ Holds(source[p], {"savedModel"})
<1>1. /\ source[p] \in Contents /\ source[p] # None /\ source[p].format \in MayHold[p]
      /\ source[p].format \in Formats
  BY DEF CanConvert, TypeOK, FileTypes, FormatsFit, Contents
<1>2. CASE c = "ONNX"
  <2>1. Holds(source[p], {"onnx", "invalid"})
    BY <1>2 DEF CanConvert
  <2> QED
    BY <1>1, <1>2, <2>1 DEF Holds, Owner
<1>3. CASE c = "CoreML"
  BY <1>1, <1>3, ConversionAssumption DEF CanConvert, Holds, Owner, NamesTell
<1>4. CASE c = "PyTorch"
  <2>1. Holds(source[p], {"script", "module", "tensors"})
    BY <1>4 DEF CanConvert
  <2> QED
    BY <1>1, <1>4, <2>1 DEF Holds, Owner
<1>5. CASE c = "TensorFlow"
  <2>1. Keras(p) \/ Holds(source[p], {"savedModel", "textSavedModel"})
    BY <1>5 DEF CanConvert
  <2>2. source[p].format \in {"keras", "savedModel", "textSavedModel"}
    BY <1>1, <2>1 DEF NamesTell, Holds
  <2> QED
    BY <1>1, <1>5, <2>2 DEF Owner
<1> QED
  BY <1>2, <1>3, <1>4, <1>5 DEF Converters

\* Every converter is asked, and TensorFlow the first for a SavedModel.
LEMMA AllAreAsked ==
  ASSUME NEW p
  PROVE  /\ \A c \in Converters : \E i \in DOMAIN ConvertersToAsk(p) : ConvertersToAsk(p)[i] = c
         /\ Holds(source[p], {"savedModel"}) =>
              ConvertersToAsk(p) # <<>> /\ Head(ConvertersToAsk(p)) = "TensorFlow"
<1> DEFINE cs == Candidates(p)
<1>1. Registered \in Seq(Converters) /\ Len(Registered) = 4
      /\ \A c \in Converters : \E i \in 1..4 : Registered[i] = c
  BY DEF Registered, Converters
<1>2. cs \in Seq(Converters)
  BY AskedConverters
<1>3. /\ ConvertersToAsk(p) \in Seq(Converters) /\ Len(ConvertersToAsk(p)) = Len(cs) + 4
      /\ \A i \in 1..(Len(cs) + 4) :
           ConvertersToAsk(p)[i] = IF i <= Len(cs) THEN cs[i] ELSE Registered[i - Len(cs)]
  <2> HIDE DEF cs
  <2>1. ConvertersToAsk(p) = cs \o Registered
    BY DEF ConvertersToAsk, cs
  <2>2. /\ cs \o Registered \in Seq(Converters)
        /\ Len(cs \o Registered) = Len(cs) + Len(Registered)
        /\ \A i \in 1..(Len(cs) + Len(Registered)) :
             (cs \o Registered)[i] = IF i <= Len(cs) THEN cs[i] ELSE Registered[i - Len(cs)]
    BY <1>1, <1>2, ConcatProperties
  <2> QED
    BY <1>1, <2>1, <2>2, Zenon
<1>4. ASSUME NEW c \in Converters
      PROVE  \E i \in DOMAIN ConvertersToAsk(p) : ConvertersToAsk(p)[i] = c
  <2> HIDE DEF cs
  <2>1. PICK i \in 1..4 : Registered[i] = c
    BY <1>1
  <2> DEFINE j == Len(cs) + i
  <2>2. j \in 1..(Len(cs) + 4) /\ ~(j <= Len(cs)) /\ j - Len(cs) = i
    BY <1>2
  <2>3. ConvertersToAsk(p)[j] = Registered[i] /\ j \in DOMAIN ConvertersToAsk(p)
    BY <1>3, <2>2
  <2> QED
    BY <2>1, <2>3
<1>5. ASSUME Holds(source[p], {"savedModel"})
      PROVE  ConvertersToAsk(p) # <<>> /\ Head(ConvertersToAsk(p)) = "TensorFlow"
  <2>1. Extension(p) = ".savedmodel"
    BY <1>5 DEF Extension
  <2>2. /\ Claiming("ONNX", p) = <<>> /\ Claiming("CoreML", p) = <<>>
        /\ Claiming("PyTorch", p) = <<>> /\ Claiming("TensorFlow", p) = <<"TensorFlow">>
    BY <2>1 DEF Claiming, Extensions
  <2>3. cs = <<"TensorFlow">>
    <3>1. <<>> \in Seq(Converters) /\ <<"TensorFlow">> \in Seq(Converters)
      BY DEF Converters
    <3>2. \A s \in Seq(Converters) : <<>> \o s = s
      BY ConcatEmptySeq
    <3> QED
      BY <2>2, <3>1, <3>2 DEF Candidates
  <2> HIDE DEF cs
  <2>4. Len(ConvertersToAsk(p)) > 0 /\ ConvertersToAsk(p)[1] = "TensorFlow"
    BY <1>3, <2>3
  <2> QED
    BY <1>3, <2>4
<1> QED
  BY <1>4, <1>5

\* Routing depends on the source and on what the process itself has.
LEMMA RoutedStays ==
  ASSUME NEW v, Routed(v), Path(v)' = Path(v), source'[Path(v)] = source[Path(v)],
         step'[v] = step[v], queue'[v] = queue[v], converter'[v] = converter[v]
  PROVE  Routed(v)'
<1>1. \A c : CanConvert(c, Path(v))' <=> CanConvert(c, Path(v))
  BY DEF CanConvert, Holds, Keras
<1>2. Holds(source[Path(v)], {"savedModel"})' <=> Holds(source[Path(v)], {"savedModel"})
  BY DEF Holds
<1> QED
  BY <1>1, <1>2 DEF Routed

LEMMA StartRoutes ==
  ASSUME IInv, RInv, NEW w \in Workers, NEW r \in Requests, Start(w, r)
  PROVE  RInv'
<1>1. /\ w \notin Running /\ UNCHANGED <<source, converter>>
      /\ step' = [step EXCEPT ![w] = "route"] /\ request' = [request EXCEPT ![w] = r]
      /\ queue' = [queue EXCEPT ![w] = ConvertersToAsk(r.path)]
      /\ disturbed \ {w} \subseteq disturbed'
  BY DEF Start, Goto, files
<1>2. FormatsFit'
  BY <1>1 DEF RInv, FormatsFit
<1>3. ASSUME NEW v \in Running', v \notin disturbed' PROVE Routed(v)'
  <2>1. CASE v = w
    <3>1. step'[v] = "route" /\ queue'[v] = ConvertersToAsk(r.path) /\ Path(v)' = r.path
      BY <1>1, <2>1 DEF IInv, Typed, TypeOK, StepTypes, QueueTypes, Path
    <3> QED
      BY <1>1, <3>1, AllAreAsked DEF Routed, CanConvert, Holds, Keras
  <2>2. CASE v # w
    <3>1. /\ v \in Running /\ v \notin disturbed /\ Path(v)' = Path(v)
          /\ step'[v] = step[v] /\ queue'[v] = queue[v]
      BY <1>1, <1>3, <2>2 DEF Running, Path
    <3> QED
      BY <1>1, <3>1, RoutedStays DEF RInv
  <2> QED
    BY <2>1, <2>2
<1> QED
  BY <1>2, <1>3 DEF RInv

\* What one can_convert decides.
LEMMA AskRoutes ==
  ASSUME NamesTell, IInv, RInv, NEW w \in Workers, w \notin disturbed, AskConverter(w)
  PROVE  Routed(w)'
<1> DEFINE h == Head(queue[w])
<1>1. /\ w \in Running /\ step[w] = "route" /\ queue[w] # <<>> /\ UNCHANGED <<source, request>>
      /\ Routed(w)
  BY DEF AskConverter, files, Running, RInv
<1>2. queue[w] \in Seq(Converters) /\ Path(w) \in Paths
  BY <1>1, ConversionAssumption DEF IInv, Typed, TypeOK, QueueTypes, StepTypes, Path
<1>3. Path(w)' = Path(w)
  BY <1>1 DEF Path
<1>4. h \in Converters
  BY <1>1, <1>2
<1>5. CASE CanConvert(h, Path(w))
  <2>1. step'[w] \in {"load", "metadata"} /\ converter'[w] = h
    BY <1>5 DEF AskConverter, Goto, IInv, Typed, TypeOK, StepTypes
  <2>2. source[Path(w)] # None
        /\ (h = Owner[source[Path(w)].format] \/ Holds(source[Path(w)], {"savedModel"}))
    BY <1>2, <1>4, <1>5, WhoConverts DEF IInv, Typed, RInv
  <2>3. Holds(source[Path(w)], {"savedModel"}) => h = Owner[source[Path(w)].format]
    BY <1>1 DEF Routed, Holds, Owner
  <2> QED
    BY <1>1, <1>3, <2>1, <2>2, <2>3 DEF Routed
<1>6. CASE ~CanConvert(h, Path(w))
  <2>1. step'[w] = "route" /\ queue'[w] = Tail(queue[w])
    BY <1>1, <1>6 DEF AskConverter, IInv, Typed, TypeOK, QueueTypes
  <2>2. ASSUME NEW c \in Converters, CanConvert(c, Path(w))
        PROVE  \E i \in DOMAIN Tail(queue[w]) : Tail(queue[w])[i] = c
    <3>1. PICK i \in 1..Len(queue[w]) : queue[w][i] = c
      BY <1>1, <1>2, <2>2 DEF Routed
    <3>2. i # 1
      BY <1>1, <1>2, <1>6, <2>2, <3>1
    <3>3. /\ i - 1 \in DOMAIN Tail(queue[w])
          /\ Tail(queue[w])[i - 1] = c
      BY <1>1, <1>2, <3>1, <3>2
    <3> QED
      BY <3>3
  <2>3. ~Holds(source[Path(w)], {"savedModel"})
    <3>1. SUFFICES ASSUME Holds(source[Path(w)], {"savedModel"}) PROVE FALSE
      OBVIOUS
    <3>2. h = "TensorFlow"
      BY <1>1, <3>1 DEF Routed
    <3>3. Holds(source[Path(w)], {"savedModel", "textSavedModel"}) /\ source[Path(w)] # None
      BY <3>1 DEF Holds
    <3>4. CanConvert("TensorFlow", Path(w))
      BY <3>3 DEF CanConvert
    <3> QED
      BY <1>6, <3>2, <3>4
  <2>4. \A c : CanConvert(c, Path(w))' <=> CanConvert(c, Path(w))
    BY <1>1, <1>3 DEF CanConvert, Holds, Keras
  <2>5. Holds(source[Path(w)], {"savedModel"})' <=> Holds(source[Path(w)], {"savedModel"})
    BY <1>1, <1>3 DEF Holds
  <2> HIDE DEF h
  <2> QED
    BY <2>1, <2>2, <2>3, <2>4, <2>5 DEF Routed
<1> QED
  BY <1>5, <1>6

\* No other step of a process comes to a step that it has been routed to.
LEMMA ProcessRoutes ==
  ASSUME NamesTell, IInv, RInv, NEW w \in Workers, Process(w) \/ Terminate(w)
  PROVE  RInv'
<1>1. /\ w \in Running /\ UNCHANGED <<source, request, disturbed>>
      /\ \A v \in Workers \ {w} : step'[v] = step[v] /\ converter'[v] = converter[v]
  BY ProcessFrame DEF IInv, Typed
<1>2. FormatsFit'
  BY <1>1 DEF RInv, FormatsFit
<1>3. ASSUME NEW v \in Running', v \notin disturbed', v # w PROVE Routed(v)'
  <2>1. v \in Running /\ v \notin disturbed /\ Path(v)' = Path(v) /\ v \in Workers
    BY <1>1, <1>3 DEF Running, Path
  <2>2. queue'[v] = queue[v]
    <3> USE DEF IInv, Typed, TypeOK, QueueTypes, End, Answer, memory
    <3>1. CASE AskConverter(w) \/ Load(w) \/ SaveTemp(w) \/ ReadTemp(w) \/ OpenOutput(w)
               \/ WriteOutput(w) \/ Validate(w) \/ MeasureProvider(w) \/ ExtractMetadata(w)
      BY <1>3, <2>1, <3>1 DEF AskConverter, Load, SaveTemp, ReadTemp, OpenOutput, WriteOutput,
         Validate, MeasureProvider, ExtractMetadata
    <3>2. CASE Describe(w)
      <4>1. \E q : queue' = [queue EXCEPT ![w] = q]
        BY <3>2 DEF Describe
      <4> QED
        BY <1>3, <2>1, <4>1
    <3>3. CASE NoConverter(w) \/ AnswerConverted(w) \/ AnswerMetadata(w) \/ Fails(w) \/ Terminate(w)
      BY <1>3, <2>1, <3>3 DEF NoConverter, AnswerConverted, AnswerMetadata, Fails, Terminate
    <3> QED
      BY <3>1, <3>2, <3>3 DEF Process
  <2>3. Routed(v)
    BY <2>1 DEF RInv
  <2>4. step'[v] = step[v] /\ converter'[v] = converter[v]
    BY <1>1, <1>3, <2>1
  <2> QED
    BY <1>1, <2>1, <2>2, <2>3, <2>4, RoutedStays
<1>4. ASSUME w \in Running', w \notin disturbed' PROVE Routed(w)'
  <2>1. CASE AskConverter(w)
    BY <1>1, <1>4, <2>1, AskRoutes
  <2>2. CASE Load(w) \/ SaveTemp(w) \/ ReadTemp(w) \/ OpenOutput(w) \/ WriteOutput(w)
             \/ Validate(w) \/ Describe(w) \/ MeasureProvider(w) \/ ExtractMetadata(w)
    <3>1. step'[w] \notin {"route", "load", "metadata"}
      BY <2>2 DEF Load, SaveTemp, ReadTemp, OpenOutput, WriteOutput, Validate, Describe,
         MeasureProvider, ExtractMetadata, Goto, IInv, Typed, TypeOK, StepTypes
    <3> QED
      BY <3>1 DEF Routed
  <2>3. CASE NoConverter(w) \/ AnswerConverted(w) \/ AnswerMetadata(w) \/ Fails(w) \/ Terminate(w)
    <3>1. step'[w] = "ended"
      BY <2>3 DEF NoConverter, AnswerConverted, AnswerMetadata, Fails, Terminate, Answer, End,
         Goto, IInv, Typed, TypeOK, StepTypes
    <3> QED
      BY <3>1 DEF Routed
  <2> QED
    BY <2>1, <2>2, <2>3 DEF Process
<1> QED
  BY <1>2, <1>3, <1>4 DEF RInv

LEMMA EditRoutes ==
  ASSUME IInv, RInv, NEW e \in Edits, EditSource(e[1], e[2])
  PROVE  RInv'
<1>1. /\ UNCHANGED <<request, step, queue, converter>>
      /\ source' = [source EXCEPT ![e[1]] = e[2]]
      /\ disturbed' = disturbed \cup {w \in Running : Path(w) = e[1]}
  BY DEF EditSource, memory
<1>2. e[1] \in Paths /\ (e[2] # None => e[2].format \in MayHold[e[1]])
  BY ConversionAssumption
<1>3. FormatsFit'
  BY <1>1, <1>2 DEF RInv, FormatsFit, IInv, Typed, TypeOK, FileTypes
<1>4. ASSUME NEW v \in Running', v \notin disturbed' PROVE Routed(v)'
  <2>1. v \in Running /\ v \notin disturbed /\ Path(v)' = Path(v) /\ Path(v) # e[1]
    BY <1>1, <1>4 DEF Running, Path
  <2>2. source'[Path(v)] = source[Path(v)]
    BY <1>1, <2>1 DEF IInv, Typed, TypeOK, FileTypes
  <2>3. Routed(v)
    BY <2>1 DEF RInv
  <2> QED
    BY <1>1, <2>1, <2>2, <2>3, RoutedStays
<1> QED
  BY <1>3, <1>4 DEF RInv

LEMMA RoutesInductive == NamesTell /\ IInv /\ RInv /\ [Next]_vars => RInv'
<1> SUFFICES ASSUME NamesTell, IInv, RInv, [Next]_vars PROVE RInv'
  OBVIOUS
<1>1. CASE UNCHANGED vars
  BY <1>1 DEF vars, files, memory, RInv, FormatsFit, Running, Routed, CanConvert, Holds, Keras,
     Path
<1> QED
  BY <1>1, StartRoutes, ProcessRoutes, EditRoutes DEF Next

LEMMA RoutesHold == ASSUME NamesTell PROVE Spec => []RInv
<1>1. Init => RInv
  BY ConversionAssumption DEF Init, RInv, FormatsFit, Running
<1> QED
  BY <1>1, RoutesInductive, Invariance, PTL DEF Spec

\* With nothing left to ask, all have refused.
LEMMA AskedByAll ==
  ASSUME NEW w, Routed(w), step[w] = "route", queue[w] = <<>>
  PROVE  \A c \in Converters : ~CanConvert(c, Path(w))
<1>1. queue[w] \in Seq(Converters)
  BY EmptySeq
<1>2. \A i \in DOMAIN queue[w] : FALSE
  BY <1>1
<1> QED
  BY <1>2 DEF Routed

\* The response "no converter" is only given by NoConverter.
LEMMA RefusedByAll ==
  ASSUME IInv, RInv, [Next]_vars, NEW w \in Workers, w \notin disturbed', w \in Running,
         answer'[w].reason = "no converter"
  PROVE  \A c \in DOMAIN Extensions : ~CanConvert(c, Path(w))
<1>1. answer[w].reason = "not asked"
  BY DEF IInv, Knows, AsksAndLoads
<1>2. Process(w) /\ w \notin disturbed
  <2>1. ASSUME NEW v \in Workers, v # w, Process(v) \/ Terminate(v) PROVE FALSE
    BY <1>1, <2>1, ProcessFrame DEF IInv, Typed
  <2>2. ASSUME NEW v \in Workers, NEW r \in Requests, Start(v, r) PROVE FALSE
    BY <1>1, <2>2 DEF Start, IInv, Typed, TypeOK
  <2>3. ~Terminate(w)
    BY <1>1 DEF Terminate
  <2>4. ASSUME NEW e \in Edits, EditSource(e[1], e[2]) PROVE FALSE
    BY <1>1, <2>4 DEF EditSource
  <2>5. CASE UNCHANGED vars
    BY <1>1, <2>5 DEF vars
  <2>6. Process(w)
    BY <2>1, <2>2, <2>3, <2>4, <2>5 DEF Next
  <2> QED
    BY <2>6, ProcessFrame DEF IInv, Typed
<1>3. step[w] = "route" /\ queue[w] = <<>>
  <2>1. CASE answer' = answer
    BY <1>1, <2>1
  <2>2. CASE AnswerConverted(w) \/ AnswerMetadata(w) \/ Fails(w)
    <3>1. \E s, rs : \E reason \in {"none", "benchmark error", "error"} :
            Answer(w, s, reason, rs)
      BY <2>2, Zenon DEF AnswerConverted, AnswerMetadata, Fails
    <3>2. PICK s, rs : \E reason \in {"none", "benchmark error", "error"} :
                 Answer(w, s, reason, rs)
      BY <3>1
    <3>3. PICK reason \in {"none", "benchmark error", "error"} : Answer(w, s, reason, rs)
      BY <3>2
    <3>4. answer'[w].reason = reason
      BY <3>3 DEF Answer, IInv, Typed, TypeOK
    <3> QED
      BY <3>4
  <2> QED
    BY <1>2, <2>1, <2>2 DEF Process, AskConverter, NoConverter, Load, SaveTemp, ReadTemp,
       OpenOutput, WriteOutput, Validate, Describe, MeasureProvider, ExtractMetadata
<1>4. \A c \in Converters : ~CanConvert(c, Path(w))
  <2>1. Routed(w)
    BY <1>2 DEF RInv
  <2> QED
    BY <1>3, <2>1, AskedByAll
<1> QED
  BY <1>4 DEF Extensions, Converters

\* If the names of files tell what the converters take them to tell, a source goes to
\* the converter of its format, whatever order the registry asks in and whichever other
\* processes run; it is refused only when every converter has been asked.
THEOREM SourcesAreRoutedByFormat == ASSUME NamesTell PROVE Spec => RoutedByFormat
<1> DEFINE Step ==
      \A w \in Workers \ disturbed' : w \in Running =>
        /\ step'[w] \in {"load", "metadata"} =>
             source[Path(w)] # None /\ converter'[w] = Owner[source[Path(w)].format]
        /\ answer'[w].reason = "no converter" =>
             \A c \in DOMAIN Extensions : ~CanConvert(c, Path(w))
<1>1. IInv /\ IInv' /\ RInv /\ RInv' /\ [Next]_vars => [Step]_vars
  <2> SUFFICES ASSUME IInv, IInv', RInv, RInv', [Next]_vars,
                      NEW w \in Workers \ disturbed', w \in Running
               PROVE  /\ step'[w] \in {"load", "metadata"} =>
                           /\ source[Path(w)] # None
                           /\ converter'[w] = Owner[source[Path(w)].format]
                      /\ answer'[w].reason = "no converter" =>
                           \A c \in DOMAIN Extensions : ~CanConvert(c, Path(w))
    OBVIOUS
  <2>1. ASSUME step'[w] \in {"load", "metadata"}
        PROVE  source[Path(w)] # None /\ converter'[w] = Owner[source[Path(w)].format]
    <3>1. w \in Running'
      BY <2>1 DEF Running
    <3>2. source'[Path(w)'] # None /\ converter'[w] = Owner[source'[Path(w)'].format]
      BY <2>1, <3>1 DEF RInv, Routed
    <3>3. source'[Path(w)'] = source[Path(w)]
      <4>1. ASSUME NEW v \in Workers, NEW r \in Requests, Start(v, r)
            PROVE  UNCHANGED source /\ request'[w] = request[w]
        BY <4>1 DEF Start, files, IInv, Typed, TypeOK, StepTypes
      <4>2. ASSUME NEW v \in Workers, Process(v) \/ Terminate(v) PROVE UNCHANGED <<source, request>>
        BY <4>2, ProcessFrame DEF IInv, Typed
      <4>3. ASSUME NEW e \in Edits, EditSource(e[1], e[2])
            PROVE  UNCHANGED request /\ source'[Path(w)] = source[Path(w)]
        BY <4>3 DEF EditSource, IInv, Typed, TypeOK, FileTypes
      <4>4. CASE UNCHANGED vars
        BY <4>4 DEF vars, files, Path
      <4> QED
        BY <4>1, <4>2, <4>3, <4>4 DEF Next, Path
    <3> QED
      BY <3>2, <3>3
  <2> QED
    BY <2>1, RefusedByAll
<1>2. RoutedByFormat <=> [][Step]_vars
  BY DEF RoutedByFormat
<1> HIDE DEF Step
<1> QED
  BY <1>1, <1>2, RoutesHold, Invariance, PTL DEF Spec

=============================================================================
