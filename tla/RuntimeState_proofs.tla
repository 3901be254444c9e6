------------------------ MODULE RuntimeState_proofs ------------------------
(***************************************************************************)
(* What TLAPS proves about RuntimeState, for every number of workers,      *)
(* paths, contents and ids, and every set of requests.                     *)
(***************************************************************************)
EXTENDS RuntimeState, TLAPS

\* The steps at which a handler has its model_id.
HasId == Steps \ {"idle", "list", "exists", "hash"}

\* The steps at which a handler's locals hold a content.
Holding == {"publish", "store", "infer"}

\* What a handler has in its locals, by the step it has reached.
LocalsOK ==
  \A w \in Workers :
    /\ at[w] # "idle" => request[w] \in Requests
    /\ at[w] \in Registering => request[w].op = "register" /\ request[w].path \in Paths
    /\ at[w] \in HasId => modelId[w] \in Ids
    /\ at[w] \in Holding => held[w] \in Contents
    /\ at[w] \notin Holding => held[w] = None

\* Every conversion is waited for by one handler at most, which has started it with its own
\* path for the file of its own id.
JobsOK ==
  /\ \A v, w \in Workers : job[v] = job[w] /\ job[w] # None => v = w
  /\ \A w \in Workers : job[w] # None =>
       /\ at[w] = "converting"
       /\ conversion[job[w]] \in Conversion
       /\ conversion[job[w]].path = request[w].path
       /\ conversion[job[w]].file = OnnxPath[modelId[w]]

\* What a conversion has read, by the phase it has reached.
ConversionOK(k) ==
  conversion[k] # NoConversion =>
    /\ conversion[k] \in Conversion
    /\ conversion[k].phase \in {"loaded", "writing", "done"} => conversion[k].read \in Contents
    /\ conversion[k].phase = "writing" => conversion[k].bytes \in Contents

Typed == TypeOK /\ LocalsOK /\ JobsOK /\ \A k \in Converters : ConversionOK(k)

USE NoneAssumption, HashAssumption, FileAssumption, RequestAssumption, BoundAssumption

-----------------------------------------------------------------------------
(* The actions that change nothing but their worker's locals and reply.    *)

\* A handler that returns a well-typed response leaves its worker well-typed.
LEMMA AnswerTyped ==
  ASSUME Typed, NEW w \in Workers, request[w] \in Requests,
         NEW code \in {"SUCCESS"} \cup Errors,
         NEW id \in Ids \cup {None}, NEW of \in Contents \cup {None},
         Answer(w, code, id, of)
  PROVE  /\ at' \in [Workers -> Steps]
         /\ request' \in [Workers -> Requests \cup {NoRequest}]
         /\ modelId' \in [Workers -> Ids \cup {None}]
         /\ held' \in [Workers -> Contents \cup {None}]
         /\ job' \in [Workers -> Converters \cup {None}]
         /\ reply' \in [Workers -> Reply \cup {NoReply}]
         /\ LocalsOK'
  <1>1. at' \in [Workers -> Steps]
    BY DEF Typed, TypeOK, Answer, Goto, Steps
  <1>2. /\ request' \in [Workers -> Requests \cup {NoRequest}]
        /\ modelId' \in [Workers -> Ids \cup {None}]
        /\ held' \in [Workers -> Contents \cup {None}]
        /\ job' \in [Workers -> Converters \cup {None}]
    BY DEF Typed, TypeOK, Answer
  <1>3. request[w].op \in Operations
    BY DEF Request
  <1>4. reply' \in [Workers -> Reply \cup {NoReply}]
    BY <1>3 DEF Typed, TypeOK, Answer, Reply
  <1>5. LocalsOK'
    BY DEF Typed, TypeOK, LocalsOK, Answer, Goto, Holding, HasId, Registering
  <1> QED BY <1>1, <1>2, <1>4, <1>5

\* And waits for no conversion, while the others wait for theirs.
LEMMA AnswerJobs ==
  ASSUME Typed, NEW w \in Workers, NEW code, NEW id, NEW of, Answer(w, code, id, of),
         \A k \in Converters : k # job[w] => conversion'[k] = conversion[k]
  PROVE  /\ JobsOK'
         /\ \A v \in Workers : at'[v] = "converting" => job'[v] # None
  BY DEF Typed, TypeOK, JobsOK, Answer, Goto

\* A conversion changes the cache directory and the conversions only.
LEMMA ConvertFrame ==
  ASSUME NEW k \in Converters, Convert(k)
  PROVE  UNCHANGED <<initialized, registryVars, envVars, shutdown, at, localVars, reply>>
  BY DEF Convert, LoadSource, OpenOutput, CloseOutput, StopConverting

\* The records of conversions, field by field.
LEMMA Idle == NoConversion.phase = "none" /\ NoConversion.file = None /\ NoConversion \notin Conversion
  BY DEF NoConversion, Conversion

LEMMA SetClash ==
  ASSUME NEW c \in Conversion, NEW clash \in BOOLEAN, NEW d, d = [c EXCEPT !.clash = clash]
  PROVE  /\ d \in Conversion
         /\ d.path = c.path /\ d.file = c.file /\ d.phase = c.phase /\ d.read = c.read
         /\ d.bytes = c.bytes
  BY DEF Conversion

LEMMA SetEnded ==
  ASSUME NEW c \in Conversion, NEW phase \in {"done", "failed"}, NEW d,
         d = [c EXCEPT !.phase = phase, !.bytes = None, !.clash = FALSE]
  PROVE  /\ d \in Conversion
         /\ d.path = c.path /\ d.file = c.file /\ d.phase = phase /\ d.read = c.read
  BY DEF Conversion

\* A conversion that takes a step runs.
LEMMA ConvertRuns ==
  ASSUME Typed, NEW k \in Converters, Convert(k)
  PROVE  conversion[k] \in Conversion /\ ConversionOK(k)
  <1>1. conversion[k].phase \in {"loading", "loaded", "writing"}
    BY DEF Convert, LoadSource, OpenOutput, CloseOutput, StopConverting
  <1> QED
    BY <1>1, Idle DEF Typed, TypeOK

\* And of another conversion it changes only whether it clashes.
LEMMA ConvertOthers ==
  ASSUME Typed, NEW k \in Converters, Convert(k), NEW j \in Converters, j # k
  PROVE  \/ conversion'[j] = conversion[j]
         \/ /\ conversion[j] \in Conversion /\ conversion'[j] \in Conversion
            /\ conversion'[j].path = conversion[j].path
            /\ conversion'[j].file = conversion[j].file
            /\ conversion'[j].phase = conversion[j].phase
            /\ conversion'[j].read = conversion[j].read
            /\ conversion'[j].bytes = conversion[j].bytes
  <1>1. CASE OpenOutput(k)
    <2> DEFINE others == Writers(conversion[k].file)
    <2>1. CASE j \in others
      <3>1. conversion'[j] = [conversion[j] EXCEPT !.clash = TRUE]
        BY <1>1, <2>1 DEF OpenOutput
      <3>2. conversion[j] \in Conversion
        BY <2>1, Idle DEF Writers, Typed, TypeOK
      <3>3. ASSUME NEW c \in Conversion, NEW d, d = [c EXCEPT !.clash = TRUE]
            PROVE  /\ d \in Conversion
                   /\ d.path = c.path /\ d.file = c.file /\ d.phase = c.phase
                   /\ d.read = c.read /\ d.bytes = c.bytes
        BY <3>3, SetClash
      <3> QED
        BY <3>1, <3>2, <3>3
    <2>2. CASE j \notin others
      BY <1>1, <2>2 DEF OpenOutput
    <2> QED
      BY <2>1, <2>2
  <1>2. CASE LoadSource(k) \/ CloseOutput(k) \/ StopConverting(k)
    BY <1>2 DEF LoadSource, CloseOutput, StopConverting, End, Typed, TypeOK
  <1> QED
    BY <1>1, <1>2 DEF Convert

LEMMA ConvertDomain ==
  ASSUME Typed, NEW k \in Converters, Convert(k),
         conversion'[k] \in Conversion \cup {NoConversion}
  PROVE  conversion' \in [Converters -> Conversion \cup {NoConversion}]
  <1>1. \A j \in Converters : conversion'[j] \in Conversion \cup {NoConversion}
    BY ConvertOthers DEF Typed, TypeOK
  <1>2. CASE OpenOutput(k)
    <2> DEFINE c == conversion[k]
               bytes == IF c.path \in OnnxPaths \cup CopiedPaths THEN source[c.path] ELSE c.read
               others == Writers(c.file)
               next(j) ==
                 IF j = k
                 THEN [c EXCEPT !.phase = "writing", !.bytes = bytes, !.clash = others # {},
                                !.read = IF c.path \in OnnxPaths THEN bytes ELSE c.read]
                 ELSE IF j \in others THEN [conversion[j] EXCEPT !.clash = TRUE]
                 ELSE conversion[j]
    <2>1. conversion' = [j \in Converters |-> next(j)]
      BY <1>2 DEF OpenOutput
    <2> HIDE DEF next
    <2>2. \A j \in Converters : next(j) \in Conversion \cup {NoConversion}
      BY <1>1, <2>1
    <2> QED
      BY <2>1, <2>2
  <1>3. CASE LoadSource(k) \/ CloseOutput(k) \/ StopConverting(k)
    <2>1. \E c : conversion' = [conversion EXCEPT ![k] = c]
      BY <1>3 DEF LoadSource, CloseOutput, StopConverting, End
    <2> QED
      BY <1>1, <2>1 DEF Typed, TypeOK
  <1> QED
    BY <1>2, <1>3 DEF Convert

\* What the step does to the conversion itself. One that nobody waits for is forgotten at
\* its end.
LEMMA ConvertSelf ==
  ASSUME Typed, NEW k \in Converters, Convert(k)
  PROVE  /\ \/ conversion'[k] = NoConversion /\ ~Waited(k)
            \/ /\ conversion'[k] \in Conversion
               /\ conversion'[k].path = conversion[k].path
               /\ conversion'[k].file = conversion[k].file
         /\ ConversionOK(k)'
         /\ conversion' \in [Converters -> Conversion \cup {NoConversion}]
  <1> DEFINE c == conversion[k]
  <1>1. c \in Conversion /\ ConversionOK(k)
    BY ConvertRuns
  <1>2. source[c.path] \in Contents \cup {None}
    BY <1>1 DEF Typed, TypeOK, Conversion
  <1>3. CASE LoadSource(k)
    <2>1. conversion'[k] = [c EXCEPT !.phase = "loaded", !.read = source[c.path]]
      BY <1>3 DEF LoadSource, Typed, TypeOK
    <2>2. source[c.path] \in Contents
      BY <1>2, <1>3 DEF LoadSource
    <2>3. /\ conversion'[k] \in Conversion
          /\ conversion'[k].path = c.path /\ conversion'[k].file = c.file
          /\ conversion'[k].phase = "loaded" /\ conversion'[k].read = source[c.path]
      BY <1>1, <2>1, <2>2 DEF Conversion
    <2> QED
      BY <2>2, <2>3, ConvertDomain DEF ConversionOK
  <1>4. CASE OpenOutput(k)
    <2> DEFINE bytes == IF c.path \in OnnxPaths \cup CopiedPaths THEN source[c.path] ELSE c.read
               read == IF c.path \in OnnxPaths THEN bytes ELSE c.read
               clash == Writers(c.file) # {}
    <2>1. conversion'[k] = [c EXCEPT !.phase = "writing", !.bytes = bytes, !.clash = clash,
                                     !.read = read]
      BY <1>4 DEF OpenOutput
    <2>2. c # NoConversion
      BY <1>1, Idle
    <2>3. bytes \in Contents
      <3>1. bytes # None
        BY <1>4 DEF OpenOutput
      <3>2. c.path \notin OnnxPaths => c.read \in Contents
        BY <1>1, <1>4, <2>2 DEF OpenOutput, ConversionOK
      <3> QED
        BY <1>2, <3>1, <3>2
    <2>4. read \in Contents
      BY <1>1, <1>4, <2>2, <2>3 DEF OpenOutput, ConversionOK
    <2>5. clash \in BOOLEAN
      OBVIOUS
    <2> HIDE DEF bytes, read, clash
    <2>6. /\ conversion'[k] \in Conversion
          /\ conversion'[k].path = c.path /\ conversion'[k].file = c.file
          /\ conversion'[k].read = read /\ conversion'[k].bytes = bytes
      <3>1. ASSUME NEW e \in Conversion, NEW d,
                   d = [e EXCEPT !.phase = "writing", !.bytes = bytes, !.clash = clash,
                                 !.read = read]
            PROVE  /\ d \in Conversion
                   /\ d.path = e.path /\ d.file = e.file /\ d.read = read /\ d.bytes = bytes
        BY <2>3, <2>4, <2>5, <3>1 DEF Conversion
      <3> QED
        BY <1>1, <2>1, <3>1
    <2> QED
      BY <2>3, <2>4, <2>6, ConvertDomain DEF ConversionOK
  <1>5. CASE CloseOutput(k) \/ StopConverting(k)
    <2>1. PICK phase \in {"done", "failed"} :
            /\ End(k, phase)
            /\ phase = "done" => c.phase = "writing"
      BY <1>5 DEF CloseOutput, StopConverting
    <2>2. CASE Waited(k)
      <3>1. conversion'[k] = [c EXCEPT !.phase = phase, !.bytes = None, !.clash = FALSE]
        BY <2>1, <2>2 DEF End, Typed, TypeOK
      <3>2. /\ conversion'[k] \in Conversion
            /\ conversion'[k].path = c.path /\ conversion'[k].file = c.file
            /\ conversion'[k].phase = phase /\ conversion'[k].read = c.read
        <4>1. ASSUME NEW e \in Conversion, NEW d,
                     d = [e EXCEPT !.phase = phase, !.bytes = None, !.clash = FALSE]
              PROVE  /\ d \in Conversion
                     /\ d.path = e.path /\ d.file = e.file /\ d.phase = phase
                     /\ d.read = e.read
          BY <4>1, SetEnded
        <4> QED
          BY <1>1, <3>1, <4>1
      <3>3. c # NoConversion
        BY <1>1, Idle
      <3> QED
        BY <1>1, <2>1, <3>2, <3>3, ConvertDomain DEF ConversionOK
    <2>3. CASE ~Waited(k)
      <3>1. conversion'[k] = NoConversion
        BY <2>1, <2>3 DEF End, Typed, TypeOK
      <3> QED
        BY <2>3, <3>1, ConvertDomain DEF ConversionOK
    <2> QED
      BY <2>2, <2>3
  <1> QED
    BY <1>3, <1>4, <1>5 DEF Convert

\* A conversion writes a content or torn bytes to its file, or nothing.
LEMMA ConvertFile ==
  ASSUME Typed, NEW k \in Converters, Convert(k)
  PROVE  \/ onnxFile' = onnxFile
         \/ /\ conversion[k].file \in Files
            /\ \E bytes \in {Torn, conversion[k].bytes} \cap (Contents \cup {Torn}) :
                 onnxFile' = [onnxFile EXCEPT ![conversion[k].file] = bytes]
  <1>1. conversion[k].file \in Files
    BY ConvertRuns DEF Conversion
  <1>2. CASE LoadSource(k)
    BY <1>2 DEF LoadSource
  <1>3. CASE OpenOutput(k)
    BY <1>1, <1>3 DEF OpenOutput
  <1>4. CASE CloseOutput(k) \/ StopConverting(k)
    <2>1. conversion[k].phase = "writing" => conversion[k].bytes \in Contents
      BY ConvertRuns, Idle DEF ConversionOK
    <2> QED
      BY <1>1, <1>4, <2>1 DEF CloseOutput, StopConverting
  <1> QED
    BY <1>2, <1>3, <1>4 DEF Convert

LEMMA ConvertTyped ==
  ASSUME Typed, NEW k \in Converters, Convert(k)
  PROVE  Typed'
  <1>1. onnxFile' \in [Files -> Contents \cup {None, Torn}]
    BY ConvertFile DEF Typed, TypeOK
  <1>2. TypeOK'
    BY <1>1, ConvertFrame, ConvertSelf DEF Typed, TypeOK, registryVars, envVars, localVars
  <1>3. LocalsOK'
    BY ConvertFrame DEF Typed, LocalsOK, localVars
  <1>4. ASSUME NEW j \in Converters PROVE ConversionOK(j)'
    <2>1. ConversionOK(j)
      BY DEF Typed
    <2>2. CASE j # k
      BY <2>1, <2>2, ConvertOthers, Idle DEF ConversionOK
    <2> QED
      BY <2>2, ConvertSelf
  <1>5. JobsOK'
    <2>1. UNCHANGED <<at, request, modelId, job>>
      BY ConvertFrame DEF localVars
    <2>2. ASSUME NEW w \in Workers, job[w] # None
          PROVE  /\ conversion'[job[w]] \in Conversion
                 /\ conversion'[job[w]].path = conversion[job[w]].path
                 /\ conversion'[job[w]].file = conversion[job[w]].file
      <3>1. job[w] \in Converters /\ conversion[job[w]] \in Conversion /\ Waited(job[w])
        BY <2>2 DEF Typed, TypeOK, JobsOK, Waited
      <3>2. CASE job[w] = k
        BY <3>1, <3>2, ConvertSelf
      <3>3. CASE job[w] # k
        BY <3>1, <3>3, ConvertOthers
      <3> QED
        BY <3>2, <3>3
    <2> QED
      BY <2>1, <2>2 DEF Typed, JobsOK
  <1> QED
    BY <1>2, <1>3, <1>4, <1>5 DEF Typed

-----------------------------------------------------------------------------
LEMMA InitTyped == Init => Typed
  BY DEF Init, Typed, TypeOK, LocalsOK, JobsOK, ConversionOK, Registering, HasId, Holding, Steps

\* What StartConversion starts.
LEMMA StartEffect ==
  ASSUME Typed, NEW w \in Workers, StartConversion(w)
  PROVE  \E k \in Converters :
           /\ conversion[k] = NoConversion
           /\ job' = [job EXCEPT ![w] = k]
           /\ conversion' = [conversion EXCEPT ![k] =
                [path |-> request[w].path, file |-> OnnxPath[modelId[w]], phase |-> "loading",
                 read |-> None, bytes |-> None, clash |-> FALSE]]
           /\ conversion'[k] \in Conversion
  <1> DEFINE free == {k \in Converters : conversion[k] = NoConversion}
             k == CHOOSE k \in free : TRUE
  <1>1. k \in free
    BY DEF StartConversion
  <1>2. request[w].path \in Paths /\ modelId[w] \in Ids
    BY DEF StartConversion, Typed, LocalsOK, Registering, HasId, Steps
  <1> DEFINE c == [path |-> request[w].path, file |-> OnnxPath[modelId[w]],
                   phase |-> "loading", read |-> None, bytes |-> None, clash |-> FALSE]
  <1>3. c \in Conversion
    BY <1>2 DEF Conversion
  <1>4. conversion' = [conversion EXCEPT ![k] = c] /\ job' = [job EXCEPT ![w] = k]
    BY DEF StartConversion
  <1>5. conversion'[k] = c
    BY <1>1, <1>4 DEF Typed, TypeOK
  <1> QED
    BY <1>1, <1>3, <1>4, <1>5

\* The steps of a handler that leave conversions alone.
LEMMA QuietJobs ==
  ASSUME Typed, NEW w \in Workers, at[w] # "converting", at'[w] # "converting",
         \A v \in Workers \ {w} :
           /\ at'[v] = at[v] /\ request'[v] = request[v] /\ modelId'[v] = modelId[v],
         job' = job \/ job' = [job EXCEPT ![w] = None],
         conversion' = conversion
  PROVE  /\ JobsOK'
         /\ job' \in [Workers -> Converters \cup {None}]
         /\ \A v \in Workers : at'[v] = "converting" => job'[v] # None
         /\ \A k \in Converters : ConversionOK(k)'
  <1>1. job[w] = None
    BY DEF Typed, JobsOK
  <1>2. job' = job
    BY <1>1 DEF Typed, TypeOK
  <1> QED
    BY <1>1, <1>2 DEF Typed, TypeOK, JobsOK, ConversionOK

\* Every step keeps the types of the state and of the handlers' locals.
LEMMA NextTyped == Typed /\ [Next]_vars => Typed'
  <1> SUFFICES ASSUME Typed, [Next]_vars PROVE Typed'
    OBVIOUS
  <1>1. ASSUME NEW w \in Workers, AcceptRequest(w) \/ RefuseRequest(w) PROVE Typed'
    <2>1. TypeOK' /\ LocalsOK'
      BY <1>1 DEF AcceptRequest, RefuseRequest, Typed, TypeOK, LocalsOK, Goto, FirstStep, Request,
         Operations, Reply, Errors, Steps, Registering, HasId, Holding, registryVars, envVars,
         localVars
    <2>2. /\ at[w] # "converting" /\ at'[w] # "converting" /\ UNCHANGED <<job, conversion>>
          /\ \A v \in Workers \ {w} :
               at'[v] = at[v] /\ request'[v] = request[v] /\ modelId'[v] = modelId[v]
      BY <1>1 DEF AcceptRequest, RefuseRequest, Typed, TypeOK, Goto, FirstStep, Request,
         Operations, localVars
    <2> QED
      BY <2>1, <2>2, QuietJobs DEF Typed
  <1>2. ASSUME NEW w \in Workers, \/ CheckExists(w) \/ GetModel(w)
        PROVE Typed'
    <2>1. TypeOK' /\ LocalsOK'
      BY <1>2, AnswerTyped DEF CheckExists, GetModel, Fail, Answer, Goto, Errors, Typed, TypeOK,
         LocalsOK, Steps, Registering, HasId, Holding, registryVars, envVars, localVars
    <2>2. /\ at[w] # "converting" /\ at'[w] # "converting" /\ conversion' = conversion
          /\ job' = job \/ job' = [job EXCEPT ![w] = None]
          /\ \A v \in Workers \ {w} :
               at'[v] = at[v] /\ request'[v] = request[v] /\ modelId'[v] = modelId[v]
      BY <1>2 DEF CheckExists, GetModel, Fail, Answer, Goto, Typed, TypeOK, localVars
    <2> QED
      BY <2>1, <2>2, QuietJobs DEF Typed
  <1>3. ASSUME NEW w \in Workers,
               \/ ComputeModelId(w) \/ HasModel(w) \/ EraseExecutor(w) \/ FindExecutor(w)
               \/ LoadModel(w) \/ StoreExecutor(w)
        PROVE Typed'
    <2>1. TypeOK' /\ LocalsOK'
      <3>1. CASE ComputeModelId(w) \/ HasModel(w)
        BY <3>1 DEF ComputeModelId, HasModel, ComputeModelHash, Request, Goto, Typed, TypeOK,
           LocalsOK, Steps, Registering, HasId, Holding, registryVars, envVars, localVars
      <3>2. CASE EraseExecutor(w) \/ StoreExecutor(w)
        BY <3>2 DEF EraseExecutor, StoreExecutor, Goto, Typed, TypeOK,
           LocalsOK, Steps, Registering, HasId, Holding, registryVars, envVars, localVars
      <3>3. CASE FindExecutor(w) \/ LoadModel(w)
        BY <3>3 DEF FindExecutor, LoadModel, Goto, Typed, TypeOK,
           LocalsOK, Steps, Registering, HasId, Holding, registryVars, envVars, localVars
      <3> QED
        BY <1>3, <3>1, <3>2, <3>3
    <2>2. /\ at[w] # "converting" /\ at'[w] # "converting" /\ UNCHANGED <<job, conversion>>
          /\ \A v \in Workers \ {w} :
               at'[v] = at[v] /\ request'[v] = request[v] /\ modelId'[v] = modelId[v]
      BY <1>3 DEF ComputeModelId, HasModel, EraseExecutor, FindExecutor, LoadModel,
         StoreExecutor, Goto, Typed, TypeOK, localVars
    <2> QED
      BY <2>1, <2>2, QuietJobs DEF Typed
  <1>4. ASSUME NEW w \in Workers,
               \/ AnswerRegistered(w) \/ PublishModel(w) \/ EraseModel(w) \/ LoadFails(w)
               \/ RunInference(w) \/ ListModels(w)
        PROVE Typed'
    <2>1. PICK code \in {"SUCCESS"} \cup Errors, id \in Ids \cup {None},
               of \in Contents \cup {None} : Answer(w, code, id, of)
      <3>1. CASE AnswerRegistered(w) \/ PublishModel(w)
        <4>1. modelId[w] \in Ids
          BY <3>1 DEF AnswerRegistered, PublishModel, Typed, LocalsOK, HasId, Steps, Registering
        <4>2. models[modelId[w]] \in Contents \cup {None} /\ held[w] \in Contents \cup {None}
          BY <4>1 DEF Typed, TypeOK
        <4> QED
          BY <3>1, <4>1, <4>2 DEF AnswerRegistered, PublishModel
      <3>2. CASE EraseModel(w) \/ LoadFails(w)
        BY <3>2 DEF EraseModel, LoadFails, Fail, Errors, Typed, TypeOK
      <3>3. CASE RunInference(w)
        BY <3>3 DEF RunInference, Fail, Errors, Typed, TypeOK
      <3>4. CASE ListModels(w)
        BY <3>4 DEF ListModels
      <3> QED
        BY <1>4, <3>1, <3>2, <3>3, <3>4
    <2>2. at[w] \notin {"idle", "converting"} /\ conversion' = conversion
      BY <1>4 DEF AnswerRegistered, PublishModel, EraseModel, LoadFails, RunInference, ListModels
    <2>3. LocalsOK' /\ JobsOK' /\ \A k \in Converters : ConversionOK(k)'
      BY <2>1, <2>2, AnswerTyped, AnswerJobs DEF Typed, LocalsOK, ConversionOK
    <2>4. models' \in [Ids -> Contents \cup {None}]
      BY <1>4 DEF AnswerRegistered, PublishModel, EraseModel, LoadFails, RunInference, ListModels,
         Typed, TypeOK, LocalsOK, Holding, registryVars
    <2>5. TypeOK'
      <3>1. UNCHANGED <<initialized, executors, onnxFile, source, edits, restarts, shutdown>>
        BY <1>4 DEF AnswerRegistered, PublishModel, EraseModel, LoadFails, RunInference,
           ListModels, registryVars, envVars
      <3>2. request[w] \in Requests
        BY <2>2 DEF Typed, LocalsOK
      <3> QED
        BY <2>1, <2>2, <2>4, <3>1, <3>2, AnswerTyped, AnswerJobs DEF Typed, TypeOK
    <2> QED
      BY <2>3, <2>5 DEF Typed
  <1>5. ASSUME NEW w \in Workers, StartConversion(w) PROVE Typed'
    <2>1. PICK k \in Converters :
            /\ conversion[k] = NoConversion
            /\ job' = [job EXCEPT ![w] = k]
            /\ conversion' = [conversion EXCEPT ![k] =
                 [path |-> request[w].path, file |-> OnnxPath[modelId[w]], phase |-> "loading",
                  read |-> None, bytes |-> None, clash |-> FALSE]]
            /\ conversion'[k] \in Conversion
      BY <1>5, StartEffect
    <2>2. at[w] = "convert" /\ at' = [at EXCEPT ![w] = "converting"]
          /\ UNCHANGED <<initialized, models, executors, onnxFile, source, edits, restarts,
                         shutdown, request, modelId, held, reply>>
      BY <1>5 DEF StartConversion, Goto, registryVars, envVars
    <2>3. k # None /\ \A v \in Workers : job[v] # k
      BY <2>1 DEF Typed, JobsOK, Conversion, NoConversion
    <2>4. TypeOK'
      BY <2>1, <2>2, <2>3 DEF Typed, TypeOK, Steps, Registering
    <2>5. LocalsOK'
      BY <2>2 DEF Typed, TypeOK, LocalsOK, Registering, HasId, Holding, Steps
    <2>6. JobsOK'
      BY <2>1, <2>2, <2>3 DEF Typed, TypeOK, JobsOK
    <2>7. \A j \in Converters : ConversionOK(j)'
      BY <2>1 DEF Typed, TypeOK, ConversionOK
    <2> QED
      BY <2>4, <2>5, <2>6, <2>7 DEF Typed
  <1>6. ASSUME NEW w \in Workers, FinishConversion(w) PROVE Typed'
    <2>1. /\ job[w] \in Converters /\ conversion[job[w]].phase = "done"
          /\ conversion[job[w]].read \in Contents
      BY <1>6 DEF FinishConversion, Typed, TypeOK, JobsOK, ConversionOK, NoConversion
    <2>2. TypeOK'
      BY <1>6, <2>1 DEF FinishConversion, Goto, Typed, TypeOK, Steps, Registering, registryVars,
         envVars
    <2>3. LocalsOK'
      BY <1>6, <2>1 DEF FinishConversion, Goto, Typed, TypeOK, LocalsOK, Registering, HasId,
         Holding, Steps
    <2>4. JobsOK' /\ \A k \in Converters : ConversionOK(k)'
      BY <1>6, <2>1 DEF FinishConversion, Goto, Typed, TypeOK, JobsOK, ConversionOK
    <2> QED
      BY <2>2, <2>3, <2>4 DEF Typed
  <1>7. ASSUME NEW w \in Workers, ConversionFails(w) \/ ConversionTimesOut(w) PROVE Typed'
    <2>1. PICK code \in Errors : Fail(w, code)
      BY <1>7 DEF ConversionFails, ConversionTimesOut, ConversionError, Errors
    <2>2. request[w] \in Requests
      BY <1>7 DEF ConversionFails, ConversionTimesOut, Typed, LocalsOK
    <2>3. /\ \A k \in Converters : k # job[w] => conversion'[k] = conversion[k]
          /\ \A k \in Converters : conversion'[k] \in {conversion[k], NoConversion}
          /\ conversion' \in [Converters -> Conversion \cup {NoConversion}]
          /\ UNCHANGED <<initialized, models, executors, onnxFile, source, edits, restarts,
                         shutdown>>
      BY <1>7 DEF ConversionFails, ConversionTimesOut, Typed, TypeOK, registryVars, envVars
    <2>4. LocalsOK' /\ JobsOK' /\ \A k \in Converters : ConversionOK(k)'
      BY <2>1, <2>2, <2>3, AnswerTyped, AnswerJobs DEF Fail, Typed, ConversionOK
    <2>5. TypeOK'
      BY <2>1, <2>2, <2>3, AnswerTyped, AnswerJobs DEF Fail, Typed, TypeOK
    <2> QED
      BY <2>4, <2>5 DEF Typed
  <1>8. ASSUME NEW k \in Converters, Convert(k) PROVE Typed'
    BY <1>8, ConvertTyped
  <1>9. CASE Shutdown \/ (\E path \in Paths : EditSource(path)) \/ UNCHANGED vars
    <2>1. UNCHANGED <<at, request, modelId, held, job, conversion, reply>>
      BY <1>9 DEF Shutdown, ShutdownExecutors, ShutdownRegistry, ShutdownFlag, EditSource, vars,
         localVars
    <2>2. LocalsOK' /\ JobsOK' /\ \A k \in Converters : ConversionOK(k)'
      BY <2>1 DEF Typed, LocalsOK, JobsOK, ConversionOK
    <2>3. TypeOK'
      <3>1. CASE Shutdown
        BY <2>1, <3>1 DEF Shutdown, ShutdownExecutors, ShutdownRegistry, ShutdownFlag, Typed,
           TypeOK, registryVars, envVars
      <3>2. CASE \E path \in Paths : EditSource(path)
        <4>1. /\ UNCHANGED <<initialized, models, executors, onnxFile, restarts, shutdown>>
              /\ edits' \in 0..MaxEdits
              /\ source' \in [Paths -> Contents \cup {None}]
          BY <3>2 DEF EditSource, Typed, TypeOK, registryVars
        <4> QED
          BY <2>1, <4>1 DEF Typed, TypeOK
      <3>3. CASE UNCHANGED vars
        BY <2>1, <3>3 DEF vars, Typed, TypeOK, registryVars, envVars
      <3> QED
        BY <1>9, <3>1, <3>2, <3>3
    <2> QED
      BY <2>2, <2>3 DEF Typed
  <1>10. CASE Restart
    <2>1. \A k \in Converters : conversion'[k] \in {conversion[k], NoConversion}
      BY <1>10 DEF Restart
    <2>2. conversion' \in [Converters -> Conversion \cup {NoConversion}]
      BY <1>10 DEF Restart, Typed, TypeOK
    <2>3. TypeOK'
      <3> USE <1>10 DEF Restart
      <3>1. /\ at' \in [Workers -> Steps]
            /\ \A w \in Workers : at'[w] = "converting" => job'[w] # None
        BY <1>10 DEF Restart, Steps
      <3>2. /\ request' \in [Workers -> Requests \cup {NoRequest}]
            /\ modelId' \in [Workers -> Ids \cup {None}]
            /\ held' \in [Workers -> Contents \cup {None}]
            /\ job' \in [Workers -> Converters \cup {None}]
            /\ reply' \in [Workers -> Reply \cup {NoReply}]
        BY <1>10 DEF Restart
      <3>3. /\ restarts' \in 0..MaxRestarts
            /\ UNCHANGED <<onnxFile, source, edits>>
            /\ initialized' = TRUE /\ shutdown' = "running"
            /\ models' \in [Ids -> Contents \cup {None}]
            /\ executors' \in [Ids -> Contents \cup {None}]
        BY <1>10 DEF Restart, Typed, TypeOK
      <3>4. initialized' \in BOOLEAN /\ shutdown' \in {"running", "registry", "flag", "done"}
        BY <3>3
      <3>5. /\ onnxFile' \in [Files -> Contents \cup {None, Torn}]
            /\ source' \in [Paths -> Contents \cup {None}]
            /\ edits' \in 0..MaxEdits
        BY <3>3 DEF Typed, TypeOK
      <3> QED
        BY <2>2, <3>1, <3>2, <3>3, <3>4, <3>5 DEF TypeOK
    <2>4. LocalsOK' /\ JobsOK' /\ \A k \in Converters : ConversionOK(k)'
      BY <1>10, <2>1 DEF Restart, Typed, LocalsOK, JobsOK, ConversionOK, Registering, HasId, Holding
    <2> QED
      BY <2>3, <2>4 DEF Typed
  <1> QED
    BY <1>1, <1>2, <1>3, <1>4, <1>5, <1>6, <1>7, <1>8, <1>9, <1>10
    DEF Next, Handle, Register, Unregister, Predict

LEMMA AlwaysTyped == Spec => []Typed
  <1>1. Init => Typed
    BY InitTyped
  <1>2. Typed /\ [Next]_vars => Typed'
    BY NextTyped
  <1> QED
    BY <1>1, <1>2, PTL DEF Spec

\* Type correctness: no handler applies a map or a file operation to a missing id
\* or path, and nothing but complete models reaches the registry and the cache.
THEOREM TypeCorrect == Spec => []TypeOK
  <1>1. Typed => TypeOK
    BY DEF Typed
  <1> QED
    BY <1>1, AlwaysTyped, PTL

-----------------------------------------------------------------------------
(* Registered models have a file. A registry entry is written only by a    *)
(* handler whose conversion has written the file, and nothing deletes      *)
(* files: not a conversion that fails, nor one that nobody waits for.      *)

ConvertedHasFile ==
  \A k \in Converters :
    conversion[k].phase \in {"writing", "done"} => onnxFile[conversion[k].file] # None

PublishesFile ==
  \A w \in Workers : at[w] = "publish" => onnxFile[OnnxPath[modelId[w]]] # None

FileInv == RegisteredHasFile /\ ConvertedHasFile /\ PublishesFile

\* Every step but those of conversions leaves files alone, and starts conversions or ends
\* them.
LEMMA QuietStep ==
  ASSUME Typed, [Next]_vars, ~\E k \in Converters : Convert(k)
  PROVE  /\ onnxFile' = onnxFile
         /\ \A k \in Converters :
              \/ conversion'[k] \in {conversion[k], NoConversion}
              \/ /\ conversion'[k].phase = "loading"
                 /\ \E w \in Workers : StartConversion(w) /\ job'[w] = k
  <1> USE DEF Typed, TypeOK
  <1>1. ASSUME NEW w \in Workers, StartConversion(w)
        PROVE  /\ onnxFile' = onnxFile
               /\ \A k \in Converters :
                    \/ conversion'[k] = conversion[k]
                    \/ conversion'[k].phase = "loading" /\ job'[w] = k
    BY <1>1, StartEffect DEF StartConversion
  <1>2. ASSUME NEW w \in Workers,
               \/ FinishConversion(w) \/ ConversionFails(w) \/ ConversionTimesOut(w)
        PROVE  /\ onnxFile' = onnxFile
               /\ \A k \in Converters : conversion'[k] \in {conversion[k], NoConversion}
    BY <1>2 DEF FinishConversion, ConversionFails, ConversionTimesOut
  <1>3. ASSUME NEW w \in Workers,
               \/ AcceptRequest(w) \/ RefuseRequest(w) \/ CheckExists(w) \/ ComputeModelId(w)
               \/ HasModel(w) \/ AnswerRegistered(w) \/ PublishModel(w) \/ Unregister(w)
               \/ Predict(w) \/ ListModels(w)
        PROVE  onnxFile' = onnxFile /\ conversion' = conversion
    BY <1>3 DEF AcceptRequest, RefuseRequest, CheckExists, ComputeModelId, HasModel,
       AnswerRegistered, PublishModel, Unregister, EraseExecutor, EraseModel, Predict,
       FindExecutor, GetModel, LoadModel, LoadFails, StoreExecutor, RunInference, ListModels
  <1>4. CASE Shutdown \/ (\E path \in Paths : EditSource(path)) \/ UNCHANGED vars
    BY <1>4 DEF Shutdown, ShutdownExecutors, ShutdownRegistry, ShutdownFlag, EditSource, vars
  <1>5. CASE Restart
    BY <1>5 DEF Restart
  <1> QED
    BY <1>1, <1>2, <1>3, <1>4, <1>5 DEF Next, Handle, Register

\* No file goes away.
LEMMA FilesStay ==
  ASSUME Typed, [Next]_vars, NEW f \in Files, onnxFile[f] # None
  PROVE  onnxFile'[f] # None
  <1>1. CASE \E k \in Converters : Convert(k)
    BY <1>1, ConvertFile DEF Typed, TypeOK
  <1>2. CASE ~\E k \in Converters : Convert(k)
    BY <1>2, QuietStep
  <1> QED
    BY <1>1, <1>2

LEMMA ConvertedStep == Typed /\ FileInv /\ [Next]_vars => ConvertedHasFile'
  <1> SUFFICES ASSUME Typed, FileInv, [Next]_vars, NEW j \in Converters,
                      conversion'[j].phase \in {"writing", "done"}
               PROVE  onnxFile'[conversion'[j].file] # None
    BY DEF ConvertedHasFile
  <1>1. ASSUME conversion[j].phase \in {"writing", "done"},
               conversion'[j].file = conversion[j].file
        PROVE  onnxFile'[conversion'[j].file] # None
    <2>1. conversion[j].file \in Files
      BY <1>1, Idle DEF Typed, TypeOK, Conversion
    <2> QED
      BY <1>1, <2>1, FilesStay DEF FileInv, ConvertedHasFile
  <1>2. CASE ~\E k \in Converters : Convert(k)
    <2>1. conversion'[j] = conversion[j]
      BY <1>2, QuietStep, Idle
    <2> QED
      BY <1>1, <2>1
  <1>3. ASSUME NEW k \in Converters, Convert(k), k # j
        PROVE  onnxFile'[conversion'[j].file] # None
    BY <1>1, <1>3, ConvertOthers
  <1>4. CASE Convert(j)
    <2> DEFINE c == conversion[j]
    <2>1. c.file \in Files
      BY <1>4, ConvertRuns DEF Conversion
    <2>2. conversion'[j].file = c.file
      BY <1>4, ConvertSelf, Idle
    <2>3. CASE OpenOutput(j)
      <3>1. onnxFile'[c.file] = Torn
        BY <2>1, <2>3 DEF OpenOutput, Typed, TypeOK
      <3> QED
        BY <2>2, <3>1
    <2>4. CASE c.phase = "writing"
      BY <1>1, <2>2, <2>4
    <2>5. CASE LoadSource(j)
      <3>1. conversion'[j] = [c EXCEPT !.phase = "loaded", !.read = source[c.path]]
        BY <2>5 DEF LoadSource, Typed, TypeOK
      <3>2. conversion'[j].phase = "loaded"
        BY <1>4, <3>1, ConvertRuns DEF Conversion
      <3> QED
        BY <3>2
    <2>6. CASE StopConverting(j)
      <3>1. CASE Waited(j)
        <4>1. conversion'[j] = [c EXCEPT !.phase = "failed", !.bytes = None, !.clash = FALSE]
          BY <2>6, <3>1 DEF StopConverting, End, Typed, TypeOK
        <4>2. conversion'[j].phase = "failed"
          BY <1>4, <4>1, ConvertRuns DEF Conversion
        <4> QED
          BY <4>2
      <3>2. CASE ~Waited(j)
        <4>1. conversion'[j] = NoConversion
          BY <2>6, <3>2 DEF StopConverting, End, Typed, TypeOK
        <4> QED
          BY <4>1, Idle
      <3> QED
        BY <3>1, <3>2
    <2> QED
      BY <1>4, <2>3, <2>4, <2>5, <2>6 DEF Convert, CloseOutput
  <1> QED
    BY <1>2, <1>3, <1>4

LEMMA PublishStep == Typed /\ FileInv /\ [Next]_vars => RegisteredHasFile' /\ PublishesFile'
  <1> SUFFICES ASSUME Typed, FileInv, [Next]_vars PROVE RegisteredHasFile' /\ PublishesFile'
    OBVIOUS
  <1> DEFINE HasFile(i) == onnxFile[OnnxPath[i]] # None
  <1>1. \A i \in Ids : HasFile(i) => HasFile(i)'
    BY FilesStay
  <1> USE DEF Typed, TypeOK, LocalsOK, FileInv, RegisteredHasFile, PublishesFile
  <1>2. ASSUME NEW w \in Workers, AcceptRequest(w) \/ RefuseRequest(w)
        PROVE RegisteredHasFile' /\ PublishesFile'
    BY <1>2 DEF AcceptRequest, RefuseRequest, Goto, FirstStep, Operations, Request,
       registryVars, localVars
  <1>3. ASSUME NEW w \in Workers,
               \/ CheckExists(w) \/ ComputeModelId(w) \/ HasModel(w) \/ AnswerRegistered(w)
               \/ StartConversion(w) \/ ConversionFails(w) \/ ConversionTimesOut(w)
        PROVE RegisteredHasFile' /\ PublishesFile'
    BY <1>3 DEF CheckExists, ComputeModelId, HasModel, AnswerRegistered, StartConversion,
       ConversionFails, ConversionTimesOut, Goto, Fail, Answer, registryVars, localVars
  <1>4. ASSUME NEW w \in Workers, FinishConversion(w)
        PROVE RegisteredHasFile' /\ PublishesFile'
    <2>1. /\ onnxFile' = onnxFile /\ models' = models /\ modelId' = modelId
          /\ at' = [at EXCEPT ![w] = "publish"]
      BY <1>4 DEF FinishConversion, Goto, registryVars
    <2>2. onnxFile[OnnxPath[modelId[w]]] # None
      BY <1>4 DEF FinishConversion, JobsOK, ConvertedHasFile
    <2> QED
      BY <2>1, <2>2
  <1>5. ASSUME NEW w \in Workers, PublishModel(w)
        PROVE RegisteredHasFile' /\ PublishesFile'
    BY <1>5 DEF PublishModel, Goto, Answer, HasId, Steps, Registering
  <1>6. ASSUME NEW w \in Workers, Unregister(w) PROVE RegisteredHasFile' /\ PublishesFile'
    BY <1>6 DEF Unregister, EraseExecutor, EraseModel, Goto, Fail, Answer, localVars,
       HasId, Steps
  <1>7. ASSUME NEW w \in Workers, Predict(w) \/ ListModels(w)
        PROVE RegisteredHasFile' /\ PublishesFile'
    BY <1>7 DEF Predict, FindExecutor, GetModel, LoadModel, LoadFails, StoreExecutor,
       RunInference, ListModels, Goto, Fail, Answer, registryVars, localVars
  <1>8. ASSUME NEW k \in Converters, Convert(k) PROVE RegisteredHasFile' /\ PublishesFile'
    <2>1. UNCHANGED <<models, at, modelId>>
      BY <1>8, ConvertFrame DEF registryVars, localVars
    <2>2. \A w \in Workers : at[w] = "publish" => modelId[w] \in Ids
      BY DEF HasId, Steps, Registering
    <2> QED
      BY <1>1, <2>1, <2>2
  <1>9. CASE Shutdown \/ (\E path \in Paths : EditSource(path)) \/ UNCHANGED vars
    BY <1>9 DEF Shutdown, ShutdownExecutors, ShutdownRegistry, ShutdownFlag, EditSource, vars,
       registryVars, localVars
  <1>10. CASE Restart
    BY <1>10 DEF Restart
  <1> QED
    BY <1>2, <1>3, <1>4, <1>5, <1>6, <1>7, <1>8, <1>9, <1>10 DEF Next, Handle, Register

\* Every registered model has a file in the cache directory, whatever conversions
\* of the same id fail, time out, overlap or repeat.
THEOREM RegisteredModelsHaveFiles == Spec => []RegisteredHasFile
  <1>1. Init => FileInv
    BY DEF Init, FileInv, RegisteredHasFile, ConvertedHasFile, PublishesFile, NoConversion
  <1>2. Typed /\ FileInv /\ [Next]_vars => FileInv'
    BY ConvertedStep, PublishStep DEF FileInv
  <1>3. FileInv => RegisteredHasFile
    BY DEF FileInv
  <1> QED
    BY <1>1, <1>2, <1>3, AlwaysTyped, PTL DEF Spec

-----------------------------------------------------------------------------
(* Content-addressed ids. While a handler registers a model under the hash *)
(* of a content, its path still has that content: it was hashed, it will   *)
(* be converted, and StableSources lets nobody replace it in between.      *)

\* The steps of a registration after its id is computed.
Identified == {"has", "get", "convert", "converting", "publish"}

HandlersAddressed ==
  \A w \in Workers : \A c \in Contents :
    /\ modelId[w] = ContentHash[c] => held[w] \in {None, c}
    /\ at[w] \in Identified /\ OnnxPath[modelId[w]] = OnnxPath[ContentHash[c]]
         => source[request[w].path] = c

\* A conversion to the file of a content has its path hold that content until it ends.
ConversionsAddressed ==
  \A k \in Converters : \A c \in Contents :
    conversion[k] # NoConversion /\ conversion[k].file = OnnxPath[ContentHash[c]] =>
      /\ source[conversion[k].path] = c
      /\ conversion[k].read \in {None, c} /\ conversion[k].bytes \in {None, c}

ContentInv == ContentAddressed /\ HandlersAddressed /\ ConversionsAddressed

LEMMA ContentInit == Init => ContentInv
  BY DEF Init, ContentInv, ContentAddressed, HandlersAddressed, ConversionsAddressed, Identified,
     NoReply

\* A handler that answers with what it knows about its own id tells the truth.
LEMMA AnswerAddressed ==
  ASSUME Typed, ContentInv, NEW w \in Workers,
         NEW code, NEW id \in Ids \cup {None}, NEW of,
         \A c \in Contents : id = ContentHash[c] => of \in {None, c},
         Answer(w, code, id, of), UNCHANGED source
  PROVE  /\ \A v \in Workers : \A c \in Contents :
              reply'[v].id = ContentHash[c] => reply'[v].of \in {None, c}
         /\ HandlersAddressed'
  BY DEF Typed, TypeOK, LocalsOK, ContentInv, ContentAddressed, HandlersAddressed,
     Answer, Goto, Identified

\* An id computed from a path is the hash of a content only if the path has it.
LEMMA IdOfContent ==
  ASSUME Typed, KeysAreNotHashes, NEW w \in Workers, ComputeModelId(w),
         NEW c \in Contents, OnnxPath[modelId'[w]] = OnnxPath[ContentHash[c]]
  PROVE  source[request[w].path] = c
  <1>1. request[w].op = "register" /\ request[w] \in Requests
    BY DEF ComputeModelId, Typed, LocalsOK, Registering
  <1>2. modelId'[w] = IF request[w].id = None THEN ComputeModelHash(request[w].path)
                                              ELSE request[w].id
    BY DEF ComputeModelId, Typed, TypeOK
  <1>3. OnnxPath[ContentHash[c]] = OnnxPath[ComputeModelHash(request[w].path)]
    BY <1>1, <1>2 DEF KeysAreNotHashes
  <1>4. request[w].path \in Paths /\ source[request[w].path] \in Contents \cup {None}
    BY DEF ComputeModelId, Typed, TypeOK, LocalsOK, Registering
  <1> QED
    BY <1>3, <1>4, InjectiveHash DEF ComputeModelHash

\* The steps of conversions.
LEMMA ConvertAddressed ==
  ASSUME Typed, ContentInv, NEW k \in Converters, Convert(k)
  PROVE  ContentInv'
  <1> DEFINE d == conversion[k]
  <1>1. UNCHANGED <<models, executors, source, at, request, modelId, held, reply>>
    BY ConvertFrame DEF registryVars, envVars, localVars
  <1>2. d \in Conversion /\ d # NoConversion
    BY ConvertRuns, Idle
  <1>3. \A c \in Contents : d.file = OnnxPath[ContentHash[c]] =>
          source[d.path] = c /\ d.read \in {None, c} /\ d.bytes \in {None, c}
    BY <1>2 DEF ContentInv, ConversionsAddressed
  <1>4. ASSUME NEW c \in Contents PROVE onnxFile'[OnnxPath[ContentHash[c]]] \in {None, Torn, c}
    <2>1. onnxFile[OnnxPath[ContentHash[c]]] \in {None, Torn, c}
      BY DEF ContentInv, ContentAddressed
    <2>2. CASE onnxFile' = onnxFile
      BY <2>1, <2>2
    <2>3. CASE onnxFile' # onnxFile
      <3>1. PICK bytes \in {Torn, d.bytes} : onnxFile' = [onnxFile EXCEPT ![d.file] = bytes]
        BY <2>3, ConvertFile
      <3> QED
        BY <1>3, <2>1, <3>1 DEF Typed, TypeOK
    <2> QED
      BY <2>2, <2>3
  <1>5. ASSUME NEW c \in Contents, conversion'[k] # NoConversion,
               conversion'[k].file = OnnxPath[ContentHash[c]]
        PROVE  /\ source[conversion'[k].path] = c
               /\ conversion'[k].read \in {None, c} /\ conversion'[k].bytes \in {None, c}
    <2>1. conversion'[k] \in Conversion /\ conversion'[k].path = d.path /\ conversion'[k].file = d.file
      BY <1>5, ConvertSelf
    <2>2. source[d.path] = c /\ d.read \in {None, c} /\ d.bytes \in {None, c}
      BY <1>3, <1>5, <2>1
    <2>3. ASSUME NEW read \in {None, c}, NEW bytes \in {None, c}, NEW phase, NEW clash,
                 conversion'[k] = [d EXCEPT !.phase = phase, !.read = read, !.bytes = bytes,
                                            !.clash = clash]
          PROVE  conversion'[k].read \in {None, c} /\ conversion'[k].bytes \in {None, c}
      <3>1. conversion'[k].read = read /\ conversion'[k].bytes = bytes
        BY <1>2, <2>3 DEF Conversion
      <3> QED
        BY <3>1
    <2>4. CASE LoadSource(k)
      <3>1. conversion'[k] = [d EXCEPT !.phase = "loaded", !.read = c]
        BY <2>2, <2>4 DEF LoadSource, Typed, TypeOK
      <3>2. conversion'[k].read = c /\ conversion'[k].bytes = d.bytes
        BY <1>2, <3>1 DEF Conversion
      <3> QED
        BY <2>1, <2>2, <3>2
    <2>5. CASE OpenOutput(k)
      <3> DEFINE bytes == IF d.path \in OnnxPaths \cup CopiedPaths THEN source[d.path] ELSE d.read
                 read == IF d.path \in OnnxPaths THEN bytes ELSE d.read
                 clash == Writers(d.file) # {}
      <3>1. conversion'[k] = [d EXCEPT !.phase = "writing", !.bytes = bytes, !.clash = clash,
                                       !.read = read]
        BY <2>5 DEF OpenOutput
      <3>2. bytes \in {None, c} /\ read \in {None, c}
        BY <2>2
      <3>3. conversion'[k].read = read /\ conversion'[k].bytes = bytes
        <4> HIDE DEF bytes, read, clash
        <4> QED
          BY <1>2, <3>1 DEF Conversion
      <3> QED
        BY <2>1, <2>2, <3>2, <3>3
    <2>6. CASE CloseOutput(k) \/ StopConverting(k)
      <3>1. PICK phase : End(k, phase)
        BY <2>6 DEF CloseOutput, StopConverting
      <3>2. conversion'[k] = [d EXCEPT !.phase = phase, !.bytes = None, !.clash = FALSE]
        BY <1>5, <3>1 DEF End, Typed, TypeOK
      <3>3. conversion'[k].read = d.read /\ conversion'[k].bytes = None
        BY <1>2, <3>2 DEF Conversion
      <3> QED
        BY <2>1, <2>2, <3>3
    <2> QED
      BY <2>4, <2>5, <2>6 DEF Convert
  <1>6. ASSUME NEW j \in Converters, j # k, NEW c \in Contents, conversion'[j] # NoConversion,
               conversion'[j].file = OnnxPath[ContentHash[c]]
        PROVE  /\ source[conversion'[j].path] = c
               /\ conversion'[j].read \in {None, c} /\ conversion'[j].bytes \in {None, c}
    <2>1. /\ conversion[j] # NoConversion
          /\ conversion'[j].path = conversion[j].path /\ conversion'[j].file = conversion[j].file
          /\ conversion'[j].read = conversion[j].read /\ conversion'[j].bytes = conversion[j].bytes
      BY <1>6, ConvertOthers, Idle
    <2>2. conversion[j].file = OnnxPath[ContentHash[c]]
      BY <1>6, <2>1
    <2>3. /\ source[conversion[j].path] = c
          /\ conversion[j].read \in {None, c} /\ conversion[j].bytes \in {None, c}
      BY <2>1, <2>2 DEF ContentInv, ConversionsAddressed
    <2> QED
      BY <2>1, <2>3
  <1>7. ConversionsAddressed'
    BY <1>1, <1>5, <1>6 DEF ConversionsAddressed
  <1>8. ContentAddressed' /\ HandlersAddressed'
    BY <1>1, <1>4 DEF ContentInv, ContentAddressed, HandlersAddressed
  <1> QED
    BY <1>7, <1>8 DEF ContentInv

\* Every other step, unless it edits sources, starts conversions only that are addressed.
LEMMA QuietAddressed ==
  ASSUME Typed, ContentInv, [Next]_vars, source' = source, ~\E k \in Converters : Convert(k)
  PROVE  ConversionsAddressed'
  <1> SUFFICES ASSUME NEW k \in Converters, NEW c \in Contents, conversion'[k] # NoConversion,
                      conversion'[k].file = OnnxPath[ContentHash[c]]
               PROVE  /\ source[conversion'[k].path] = c
                      /\ conversion'[k].read \in {None, c} /\ conversion'[k].bytes \in {None, c}
    BY DEF ConversionsAddressed
  <1>1. CASE conversion'[k] = conversion[k]
    BY <1>1 DEF ContentInv, ConversionsAddressed
  <1>2. ASSUME NEW w \in Workers, StartConversion(w), conversion'[k] # conversion[k]
        PROVE  /\ source[conversion'[k].path] = c
               /\ conversion'[k].read \in {None, c} /\ conversion'[k].bytes \in {None, c}
    <2>1. conversion'[k] = [path |-> request[w].path, file |-> OnnxPath[modelId[w]],
                            phase |-> "loading", read |-> None, bytes |-> None, clash |-> FALSE]
      <3>1. PICK l \in Converters : conversion' = [conversion EXCEPT ![l] =
                [path |-> request[w].path, file |-> OnnxPath[modelId[w]], phase |-> "loading",
                 read |-> None, bytes |-> None, clash |-> FALSE]]
        BY <1>2, StartEffect
      <3>2. k = l
        BY <1>2, <3>1 DEF Typed, TypeOK
      <3> QED
        BY <3>1, <3>2 DEF Typed, TypeOK
    <2>2. at[w] \in Identified
      BY <1>2 DEF StartConversion, Identified
    <2> QED
      BY <2>1, <2>2 DEF ContentInv, HandlersAddressed
  <1> QED
    BY <1>1, <1>2, QuietStep

\* The steps of handlers, of Shutdown and of Restart.
LEMMA HandlersStep ==
  ASSUME KeysAreNotHashes, Typed, ContentInv, [Next]_vars,
         ~\E k \in Converters : Convert(k), ~\E path \in Paths : EditSource(path)
  PROVE  ContentAddressed' /\ HandlersAddressed'
  <1> DEFINE Rest == ContentAddressed' /\ HandlersAddressed'
  <1> USE DEF Typed, TypeOK, LocalsOK, ContentInv, ContentAddressed, HandlersAddressed
  <1>1. ASSUME NEW w \in Workers, AcceptRequest(w) PROVE Rest
    BY <1>1 DEF AcceptRequest, Goto, FirstStep, Operations, Request, Identified, NoReply,
       Holding, registryVars, envVars
  <1>2. ASSUME NEW w \in Workers, RefuseRequest(w) PROVE Rest
    BY <1>2 DEF RefuseRequest, registryVars, envVars, localVars
  <1>3. ASSUME NEW w \in Workers, CheckExists(w) PROVE Rest
    <2>1. CASE Fail(w, "MODEL_NOT_FOUND")
      BY <1>3, <2>1, AnswerAddressed DEF CheckExists, Fail, registryVars, envVars
    <2>2. CASE Goto(w, "hash") /\ UNCHANGED <<localVars, reply>>
      BY <1>3, <2>2 DEF CheckExists, Goto, Identified, registryVars, envVars, localVars
    <2> QED
      BY <1>3, <2>1, <2>2 DEF CheckExists
  <1>4. ASSUME NEW w \in Workers, ComputeModelId(w) PROVE Rest
    <2>1. held[w] = None
      BY <1>4 DEF ComputeModelId, Holding
    <2>2. \A c \in Contents : OnnxPath[modelId'[w]] = OnnxPath[ContentHash[c]]
            => source[request[w].path] = c
      BY <1>4, IdOfContent
    <2>3. UNCHANGED <<source, request, held, reply, onnxFile, models, executors>>
      BY <1>4 DEF ComputeModelId, registryVars, envVars
    <2>4. \A v \in Workers \ {w} : modelId'[v] = modelId[v] /\ at'[v] = at[v]
      BY <1>4 DEF ComputeModelId, Goto
    <2>5. HandlersAddressed'
      BY <2>1, <2>2, <2>3, <2>4
    <2> QED
      BY <2>3, <2>5
  <1>5. ASSUME NEW w \in Workers, HasModel(w) PROVE Rest
    BY <1>5 DEF HasModel, Goto, Identified, registryVars, envVars, localVars
  <1>6. ASSUME NEW w \in Workers, AnswerRegistered(w) PROVE Rest
    BY <1>6, AnswerAddressed DEF AnswerRegistered, registryVars, envVars, HasId, Steps,
       Registering
  <1>7. ASSUME NEW w \in Workers, StartConversion(w) PROVE Rest
    BY <1>7 DEF StartConversion, Goto, Identified, registryVars, envVars
  <1>8. ASSUME NEW w \in Workers, FinishConversion(w) PROVE Rest
    <2>1. /\ job[w] \in Converters /\ conversion[job[w]] # NoConversion
          /\ conversion[job[w]].file = OnnxPath[modelId[w]]
      BY <1>8, Idle DEF FinishConversion, JobsOK
    <2>2. \A c \in Contents : modelId[w] = ContentHash[c]
            => held'[w] \in {None, c} /\ source[request[w].path] = c
      <3>1. ASSUME NEW c \in Contents, modelId[w] = ContentHash[c]
            PROVE  held'[w] \in {None, c} /\ source[request[w].path] = c
        BY <1>8, <2>1, <3>1 DEF FinishConversion, ConversionsAddressed, Identified
      <3> QED
        BY <3>1
    <2>3. /\ at' = [at EXCEPT ![w] = "publish"]
          /\ held' = [held EXCEPT ![w] = conversion[job[w]].read]
          /\ UNCHANGED <<onnxFile, models, executors, source, request, modelId, reply>>
      BY <1>8 DEF FinishConversion, Goto, registryVars, envVars
    <2>4. at[w] \in Identified
      BY <1>8 DEF FinishConversion, Identified
    <2> QED
      BY <2>2, <2>3, <2>4
  <1>9. ASSUME NEW w \in Workers, ConversionFails(w) \/ ConversionTimesOut(w) PROVE Rest
    <2>1. PICK code : Answer(w, code, None, None)
      BY <1>9 DEF ConversionFails, ConversionTimesOut, Fail
    <2>2. UNCHANGED <<onnxFile, models, executors, source>>
      BY <1>9 DEF ConversionFails, ConversionTimesOut, registryVars, envVars
    <2> QED
      BY <2>1, <2>2, AnswerAddressed
  <1>10. ASSUME NEW w \in Workers, PublishModel(w) PROVE Rest
    BY <1>10, AnswerAddressed DEF PublishModel, envVars, Holding, HasId, Steps, Registering
  <1>11. ASSUME NEW w \in Workers, EraseExecutor(w) PROVE Rest
    BY <1>11 DEF EraseExecutor, Goto, Identified, envVars, localVars
  <1>12. ASSUME NEW w \in Workers, EraseModel(w) PROVE Rest
    BY <1>12, AnswerAddressed DEF EraseModel, Fail, envVars, HasId, Steps
  <1>13. ASSUME NEW w \in Workers, FindExecutor(w) PROVE Rest
    BY <1>13 DEF FindExecutor, Goto, Identified, registryVars, envVars
  <1>14. ASSUME NEW w \in Workers, GetModel(w) PROVE Rest
    <2>1. CASE Fail(w, "MODEL_NOT_FOUND")
      BY <1>14, <2>1, AnswerAddressed DEF GetModel, Fail, registryVars, envVars
    <2>2. CASE Goto(w, "load") /\ UNCHANGED <<localVars, reply>>
      BY <1>14, <2>2 DEF GetModel, Goto, Identified, registryVars, envVars, localVars
    <2> QED
      BY <1>14, <2>1, <2>2 DEF GetModel
  <1>15. ASSUME NEW w \in Workers, LoadModel(w) PROVE Rest
    BY <1>15 DEF LoadModel, Goto, Identified, registryVars, envVars
  <1>16. ASSUME NEW w \in Workers, LoadFails(w) PROVE Rest
    BY <1>16, AnswerAddressed DEF LoadFails, Fail, registryVars, envVars
  <1>17. ASSUME NEW w \in Workers, StoreExecutor(w) PROVE Rest
    BY <1>17 DEF StoreExecutor, Goto, Identified, envVars, localVars
  <1>18. ASSUME NEW w \in Workers, RunInference(w) PROVE Rest
    <2>1. CASE Answer(w, "SUCCESS", modelId[w], held[w])
      <3>1. modelId[w] \in Ids
        BY <1>18 DEF RunInference, HasId, Steps
      <3>2. \A c \in Contents : modelId[w] = ContentHash[c] => held[w] \in {None, c}
        OBVIOUS
      <3>3. UNCHANGED <<source, onnxFile, models, executors>>
        BY <1>18 DEF RunInference, registryVars, envVars
      <3> QED
        BY <2>1, <3>1, <3>2, <3>3, AnswerAddressed
    <2>2. CASE Fail(w, "INFERENCE_FAILED")
      BY <1>18, <2>2, AnswerAddressed DEF RunInference, Fail, registryVars, envVars
    <2> QED
      BY <1>18, <2>1, <2>2 DEF RunInference
  <1>19. ASSUME NEW w \in Workers, ListModels(w) PROVE Rest
    BY <1>19, AnswerAddressed DEF ListModels, registryVars, envVars
  <1>20. CASE Shutdown
    BY <1>20 DEF Shutdown, ShutdownExecutors, ShutdownRegistry, ShutdownFlag,
       registryVars, envVars, localVars
  <1>21. CASE UNCHANGED vars
    BY <1>21 DEF vars, registryVars, envVars, localVars
  <1>22. CASE Restart
    BY <1>22 DEF Restart, Identified, NoReply
  <1> QED
    BY <1>1, <1>2, <1>3, <1>4, <1>5, <1>6, <1>7, <1>8, <1>9, <1>10, <1>11, <1>12,
       <1>13, <1>14, <1>15, <1>16, <1>17, <1>18, <1>19, <1>20, <1>21, <1>22
    DEF Next, Handle, Register, Unregister, Predict

LEMMA ContentStep ==
  ASSUME StableSources, KeysAreNotHashes, Typed, ContentInv, [Next]_vars
  PROVE  ContentInv'
  <1>1. ASSUME NEW k \in Converters, Convert(k) PROVE ContentInv'
    BY <1>1, ConvertAddressed
  <1>2. ASSUME NEW path \in Paths, EditSource(path) PROVE ContentInv'
    <2>1. ~BeingRegistered(path) /\ \A p \in Paths \ {path} : source'[p] = source[p]
      BY <1>2 DEF EditSource
    <2>2. UNCHANGED <<onnxFile, models, executors, at, request, modelId, held, reply, conversion>>
      BY <1>2 DEF EditSource, registryVars, localVars
    <2>3. ContentAddressed' /\ HandlersAddressed'
      BY <2>1, <2>2 DEF BeingRegistered, Identified, Registering, ContentInv, ContentAddressed,
         HandlersAddressed, Typed, LocalsOK
    <2>4. \A k \in Converters : conversion[k] # NoConversion
            => source'[conversion[k].path] = source[conversion[k].path]
      BY <2>1 DEF BeingRegistered, Conversion, Typed, TypeOK
    <2>5. ConversionsAddressed'
      BY <2>2, <2>4 DEF ContentInv, ConversionsAddressed
    <2> QED
      BY <2>3, <2>5 DEF ContentInv
  <1>3. CASE ~(\E k \in Converters : Convert(k)) /\ ~(\E path \in Paths : EditSource(path))
    <2>1. ContentAddressed' /\ HandlersAddressed'
      BY <1>3, HandlersStep
    <2>2. source' = source
      <3>1. ASSUME NEW w \in Workers, AcceptRequest(w) \/ RefuseRequest(w) \/ Handle(w)
            PROVE  source' = source
        BY <3>1 DEF AcceptRequest, RefuseRequest, Handle, Register, Unregister, Predict,
           CheckExists, ComputeModelId, HasModel, AnswerRegistered, StartConversion,
           FinishConversion, ConversionFails, ConversionTimesOut, PublishModel, EraseExecutor,
           EraseModel, FindExecutor, GetModel, LoadModel, LoadFails, StoreExecutor,
           RunInference, ListModels, envVars
      <3>2. CASE Shutdown \/ Restart \/ UNCHANGED vars
        BY <3>2 DEF Shutdown, ShutdownExecutors, ShutdownRegistry, ShutdownFlag, Restart, vars,
           envVars
      <3> QED
        BY <1>3, <3>1, <3>2 DEF Next
    <2> QED
      BY <1>3, <2>1, <2>2, QuietAddressed DEF ContentInv
  <1> QED
    BY <1>1, <1>2, <1>3

\* With any number of handlers in flight, a content hash stands for its content in
\* the cache directory, the registry, the executor cache and every answer, as long
\* as model files are left alone while they are being registered.
THEOREM IdsAddressContent ==
  ASSUME StableSources, KeysAreNotHashes
  PROVE  Spec => []ContentAddressed
  <1>1. Init => ContentInv
    BY ContentInit
  <1>2. Typed /\ ContentInv /\ [Next]_vars => ContentInv'
    BY ContentStep
  <1>3. ContentInv => ContentAddressed
    BY DEF ContentInv
  <1> QED
    BY <1>1, <1>2, <1>3, AlwaysTyped, PTL DEF Spec

-----------------------------------------------------------------------------
(* Registering without a cache key a path whose content can be hashed: the *)
(* id is the hash of what the path holds until the handler has answered.   *)

KeylessInv ==
  \A w \in Workers :
    /\ at[w] \in Registering \ {"exists"} => source[request[w].path] \in Contents
    /\ at[w] \in Identified /\ request[w].id = None /\ request[w].path \notin Unhashable
         => modelId[w] = ContentHash[source[request[w].path]]

LEMMA KeylessStep ==
  ASSUME StableSources, Typed, KeylessInv, [Next]_vars
  PROVE  KeylessInv'
  <1> USE DEF Typed, TypeOK, LocalsOK, KeylessInv
  <1>1. ASSUME NEW w \in Workers, AcceptRequest(w) \/ RefuseRequest(w) PROVE KeylessInv'
    BY <1>1 DEF AcceptRequest, RefuseRequest, Goto, FirstStep, Operations, Request,
       Identified, Registering, envVars, localVars
  <1>2. ASSUME NEW w \in Workers, CheckExists(w) PROVE KeylessInv'
    BY <1>2 DEF CheckExists, Fail, Answer, Goto, Identified, Registering, envVars, localVars
  <1>3. ASSUME NEW w \in Workers, ComputeModelId(w) PROVE KeylessInv'
    BY <1>3 DEF ComputeModelId, ComputeModelHash, Goto, Identified, Registering, envVars
  <1>4. ASSUME NEW w \in Workers, HasModel(w) \/ FinishConversion(w) PROVE KeylessInv'
    BY <1>4 DEF HasModel, FinishConversion, Goto, Identified, Registering, envVars, localVars
  <1>5. ASSUME NEW w \in Workers, StartConversion(w) PROVE KeylessInv'
    BY <1>5 DEF StartConversion, Goto, Identified, Registering, envVars
  <1>6. ASSUME NEW w \in Workers,
               \/ AnswerRegistered(w) \/ ConversionFails(w) \/ ConversionTimesOut(w)
               \/ PublishModel(w)
        PROVE  KeylessInv'
    BY <1>6 DEF AnswerRegistered, ConversionFails, ConversionTimesOut, PublishModel, Fail,
       Answer, Goto, Identified, Registering, envVars
  <1>7. ASSUME NEW w \in Workers, Unregister(w) \/ ListModels(w) PROVE KeylessInv'
    BY <1>7 DEF Unregister, EraseExecutor, EraseModel, ListModels, Fail, Answer, Goto,
       Identified, Registering, envVars, localVars
  <1>8. ASSUME NEW w \in Workers, Predict(w) PROVE KeylessInv'
    BY <1>8 DEF Predict, FindExecutor, GetModel, LoadModel, LoadFails, StoreExecutor,
       RunInference, Fail, Answer, Goto, Identified, Registering, envVars, localVars
  <1>9. CASE Shutdown
    BY <1>9 DEF Shutdown, ShutdownExecutors, ShutdownRegistry, ShutdownFlag, envVars, localVars
  <1>10. ASSUME NEW path \in Paths, EditSource(path) PROVE KeylessInv'
    BY <1>10 DEF EditSource, BeingRegistered, Identified, Registering, localVars
  <1>11. CASE UNCHANGED vars
    BY <1>11 DEF vars, envVars, localVars
  <1>12. CASE Restart
    BY <1>12 DEF Restart, Identified, Registering
  <1>13. ASSUME NEW k \in Converters, Convert(k) PROVE KeylessInv'
    BY <1>13, ConvertFrame DEF envVars, localVars
  <1> QED
    BY <1>1, <1>2, <1>3, <1>4, <1>5, <1>6, <1>7, <1>8, <1>9, <1>10, <1>11, <1>12, <1>13
    DEF Next, Handle, Register

\* The two steps that answer a registration with success.
LEMMA CurrentStep ==
  ASSUME Typed, ContentInv, KeylessInv, [Next]_vars, NEW w \in Workers,
         at[w] \in Registering, at'[w] = "idle",
         request[w].id = None, request[w].path \notin Unhashable, reply'[w].code = "SUCCESS"
  PROVE  reply'[w].of \in {None, source[request[w].path]}
  <1>1. CASE AnswerRegistered(w)
    BY <1>1 DEF AnswerRegistered, Answer, Typed, TypeOK, ContentInv, ContentAddressed,
       KeylessInv, Identified, Registering
  <1>2. CASE PublishModel(w)
    BY <1>2 DEF PublishModel, Answer, Typed, TypeOK, ContentInv, HandlersAddressed,
       KeylessInv, Identified, Registering
  <1>3. CASE CheckExists(w) \/ ConversionFails(w) \/ ConversionTimesOut(w)
    BY <1>3 DEF CheckExists, ConversionFails, ConversionTimesOut, ConversionError, Fail, Answer,
       Goto, Typed, TypeOK
  <1>4. CASE ComputeModelId(w) \/ HasModel(w) \/ StartConversion(w) \/ FinishConversion(w)
    BY <1>4 DEF ComputeModelId, HasModel, StartConversion, FinishConversion, Goto,
       Typed, TypeOK
  <1>5. \/ AnswerRegistered(w) \/ PublishModel(w) \/ CheckExists(w) \/ ConversionFails(w)
        \/ ComputeModelId(w) \/ HasModel(w) \/ StartConversion(w) \/ FinishConversion(w)
        \/ ConversionTimesOut(w)
    <2>1. ASSUME NEW v \in Workers, v # w,
                 AcceptRequest(v) \/ RefuseRequest(v) \/ Handle(v)
          PROVE  at'[w] = at[w]
      BY <2>1 DEF AcceptRequest, RefuseRequest, Handle, Register, Unregister, Predict,
         CheckExists, ComputeModelId, HasModel, AnswerRegistered, StartConversion,
         FinishConversion, ConversionFails, ConversionTimesOut, PublishModel, EraseExecutor,
         EraseModel, FindExecutor, GetModel, LoadModel, LoadFails, StoreExecutor, RunInference,
         ListModels, Fail, Answer, Goto, Typed, TypeOK
    <2>2. CASE Shutdown \/ (\E path \in Paths : EditSource(path)) \/ UNCHANGED vars
      BY <2>2 DEF Shutdown, ShutdownExecutors, ShutdownRegistry, ShutdownFlag, EditSource,
         vars, Registering
    <2>3. ~(AcceptRequest(w) \/ RefuseRequest(w) \/ Unregister(w) \/ Predict(w) \/ ListModels(w))
      BY DEF AcceptRequest, RefuseRequest, Unregister, EraseExecutor, EraseModel, Predict,
         FindExecutor, GetModel, LoadModel, LoadFails, StoreExecutor, RunInference,
         ListModels, Registering
    <2>4. ~Restart
      BY DEF Restart, NoReply
    <2>5. ASSUME NEW k \in Converters, Convert(k) PROVE at'[w] = at[w]
      BY <2>5, ConvertFrame
    <2> QED
      BY <2>1, <2>2, <2>3, <2>4, <2>5 DEF Next, Handle, Register, Registering
  <1> QED
    BY <1>1, <1>2, <1>3, <1>4, <1>5

\* Registering without a cache key is answered for the content the path has at the
\* answer, for every file whose bytes ComputeModelHash can read: also where other clients
\* register packages and files it cannot.
THEOREM RegistrationsAreCurrent ==
  ASSUME StableSources, KeysAreNotHashes
  PROVE  Spec => RegistrationIsCurrent
  <1> DEFINE Current ==
        \A w \in Workers :
          (/\ at[w] \in Registering /\ at'[w] = "idle"
           /\ request[w].id = None /\ request[w].path \notin Unhashable
           /\ reply'[w].code = "SUCCESS")
          => reply'[w].of \in {None, source[request[w].path]}
  <1>1. Init => ContentInv /\ KeylessInv
    BY ContentInit DEF Init, KeylessInv, Identified, Registering
  <1>2. Typed /\ ContentInv /\ KeylessInv /\ [Next]_vars => ContentInv' /\ KeylessInv'
    BY ContentStep, KeylessStep
  <1>3. Typed /\ ContentInv /\ KeylessInv /\ [Next]_vars => [Current]_vars
    BY CurrentStep
  <1> QED
    BY <1>1, <1>2, <1>3, AlwaysTyped, PTL DEF Spec, RegistrationIsCurrent

=============================================================================
