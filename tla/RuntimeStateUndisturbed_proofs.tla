------------------ MODULE RuntimeStateUndisturbed_proofs ------------------
(***************************************************************************)
(* What TLAPS proves about RuntimeState when uses of one model do not      *)
(* overlap and different ids have different files: the three copies of     *)
(* every model agree, and the handlers implement ModelCatalog, although    *)
(* conversions fail, time out and outlive the service.                     *)
(***************************************************************************)
EXTENDS RuntimeState_proofs

USE NoneAssumption, HashAssumption, FileAssumption, RequestAssumption, BoundAssumption

-----------------------------------------------------------------------------
(* What a handler has looked up of its model stays true until it returns.  *)

\* What the handler in progress knows about the id it works on.
HandlerCoherent(w) ==
  LET i == modelId[w] IN
  /\ at[w] \in {"convert", "converting", "publish"} => models[i] = None
  /\ at[w] = "publish" => onnxFile[OnnxPath[i]] = held[w]
  /\ at[w] = "eraseModel" => executors[i] = None
  /\ at[w] \in {"get", "load", "store", "infer"} => models[i] # None
  /\ at[w] \in {"store", "infer"} => held[w] = models[i]

\* A conversion is the only one of its file, which is no registered model's, and writes what
\* it has read: also after its handler has given it up, and after the service has crashed.
ConversionCoherent(k) ==
  conversion[k] # NoConversion =>
    LET c == conversion[k] IN
    /\ \A j \in Converters : conversion[j] # NoConversion /\ conversion[j].file = c.file => j = k
    /\ \A i \in Ids : OnnxPath[i] = c.file => models[i] = None
    /\ ~c.clash
    /\ c.phase = "writing" => c.bytes = c.read
    /\ c.phase = "done" => onnxFile[c.file] = c.read

UndisturbedInv ==
  /\ CacheCoherent
  /\ \A w \in Workers : HandlerCoherent(w)
  /\ \A k \in Converters : ConversionCoherent(k)
  /\ shutdown = "registry" => \A i \in Ids : executors[i] = None

\* What OneUser means for a handler that has its id: nobody else uses its file.
LEMMA OwnFile ==
  ASSUME DistinctFiles, Undisturbed, Typed, NEW w \in Workers, at[w] \in HasId
  PROVE  /\ modelId[w] \in Ids
         /\ \A v \in Workers \ {w} : modelId[v] # modelId[w]
         /\ \A i \in Ids : OnnxPath[i] = OnnxPath[modelId[w]] => i = modelId[w]
         /\ \A k \in Converters : conversion[k].file = OnnxPath[modelId[w]] => job[w] = k
         /\ at[w] # "converting" => job[w] = None
  <1>1. modelId[w] \in Ids
    BY DEF Typed, LocalsOK
  <1> QED
    BY <1>1 DEF Undisturbed, OneUser, DistinctFiles, Typed, TypeOK, JobsOK

\* The steps of conversions.
LEMMA ConvertUndisturbed ==
  ASSUME DistinctFiles, Undisturbed, Typed, UndisturbedInv, NEW k \in Converters, Convert(k)
  PROVE  UndisturbedInv'
  <1> DEFINE c == conversion[k]
             d == conversion'[k]
  <1>1. UNCHANGED <<models, executors, source, shutdown, at, request, modelId, held>>
    BY ConvertFrame DEF registryVars, envVars, localVars
  <1>2. c \in Conversion /\ c # NoConversion /\ ConversionCoherent(k)
    BY ConvertRuns, Idle DEF UndisturbedInv
  <1>3. \A f \in Files : f # c.file => onnxFile'[f] = onnxFile[f]
    BY ConvertFile DEF Typed, TypeOK
  <1>4. ASSUME NEW j \in Converters, j # k
        PROVE  /\ conversion[j] # NoConversion => conversion[j].file # c.file
               /\ conversion'[j] = conversion[j]
    <2>1. conversion[j] # NoConversion => conversion[j].file # c.file
      BY <1>2, <1>4 DEF ConversionCoherent
    <2>2. j \notin Writers(c.file)
      BY <2>1, Idle DEF Writers
    <2>3. conversion'[j] = conversion[j]
      <3>1. CASE OpenOutput(k)
        BY <1>4, <2>2, <3>1 DEF OpenOutput
      <3>2. CASE LoadSource(k) \/ CloseOutput(k) \/ StopConverting(k)
        <4>1. \E e : conversion' = [conversion EXCEPT ![k] = e]
          BY <3>2 DEF LoadSource, CloseOutput, StopConverting, End
        <4> QED
          BY <1>4, <4>1 DEF Typed, TypeOK
      <3> QED
        BY <3>1, <3>2 DEF Convert
    <2> QED
      BY <2>1, <2>3
  <1>5. CacheCoherent'
    <2>1. \A i \in Ids : models[i] # None => OnnxPath[i] # c.file
      BY <1>2 DEF ConversionCoherent
    <2> QED
      BY <1>1, <1>3, <2>1 DEF UndisturbedInv, CacheCoherent
  <1>6. ASSUME NEW w \in Workers PROVE HandlerCoherent(w)'
    <2>1. at[w] = "publish" => OnnxPath[modelId[w]] \in Files /\ OnnxPath[modelId[w]] # c.file
      BY OwnFile DEF HasId, Steps, Registering
    <2>2. HandlerCoherent(w)
      BY DEF UndisturbedInv
    <2> QED
      BY <1>1, <1>3, <2>1, <2>2 DEF HandlerCoherent
  <1>7. ASSUME d # NoConversion
        PROVE  /\ ~d.clash
               /\ d.phase = "writing" => d.bytes = d.read
               /\ d.phase = "done" => onnxFile'[d.file] = d.read
    <2>1. CASE LoadSource(k)
      <3>1. d = [c EXCEPT !.phase = "loaded", !.read = source[c.path]]
        BY <2>1 DEF LoadSource, Typed, TypeOK
      <3>2. d.clash = c.clash /\ d.phase = "loaded"
        BY <1>2, <3>1 DEF Conversion
      <3> QED
        BY <1>2, <3>2 DEF ConversionCoherent
    <2>2. CASE OpenOutput(k)
      <3> DEFINE bytes == IF c.path \in OnnxPaths \cup CopiedPaths THEN source[c.path] ELSE c.read
                 read == IF c.path \in OnnxPaths THEN bytes ELSE c.read
      <3>1. Writers(c.file) = {}
        <4>1. c.phase # "writing"
          BY <2>2 DEF OpenOutput
        <4> QED
          BY <1>4, <4>1, Idle DEF Writers
      <3>2. d = [c EXCEPT !.phase = "writing", !.bytes = bytes, !.clash = FALSE, !.read = read]
        BY <2>2, <3>1 DEF OpenOutput
      <3>3. bytes = read
        BY <2>2 DEF OpenOutput, Undisturbed, CopyUnedited
      <3>4. d.phase = "writing" /\ d.bytes = bytes /\ d.read = read /\ d.clash = FALSE
        <4> HIDE DEF bytes, read
        <4> QED
          BY <1>2, <3>2 DEF Conversion
      <3> QED
        BY <3>3, <3>4
    <2>3. CASE CloseOutput(k) \/ StopConverting(k)
      <3>1. PICK phase \in {"done", "failed"} :
              /\ End(k, phase)
              /\ phase = "done" => CloseOutput(k)
        BY <2>3 DEF CloseOutput, StopConverting
      <3>2. d = [c EXCEPT !.phase = phase, !.bytes = None, !.clash = FALSE]
        BY <1>7, <3>1 DEF End, Typed, TypeOK
      <3>3. d.phase = phase /\ d.clash = FALSE /\ d.read = c.read /\ d.file = c.file
        BY <1>2, <3>2 DEF Conversion
      <3>4. CASE phase = "done"
        <4>1. c.phase = "writing" /\ onnxFile' = [onnxFile EXCEPT ![c.file] = c.bytes]
          BY <1>2, <3>1, <3>4 DEF CloseOutput, ConversionCoherent
        <4>2. onnxFile'[c.file] = c.bytes
          BY <1>2, <4>1 DEF Conversion, Typed, TypeOK
        <4> QED
          BY <1>2, <3>3, <3>4, <4>1, <4>2 DEF ConversionCoherent
      <3> QED
        BY <3>3, <3>4
    <2> QED
      BY <2>1, <2>2, <2>3 DEF Convert
  <1>8. ConversionCoherent(k)'
    <2>1. d # NoConversion => d.file = c.file
      BY ConvertSelf
    <2> QED
      BY <1>1, <1>2, <1>4, <1>7, <2>1 DEF ConversionCoherent
  <1>9. ASSUME NEW j \in Converters, j # k PROVE ConversionCoherent(j)'
    <2>1. conversion'[j] = conversion[j] /\ ConversionCoherent(j)
      BY <1>4, <1>9 DEF UndisturbedInv
    <2>2. conversion[j] # NoConversion =>
            /\ conversion[j].file # c.file
            /\ onnxFile'[conversion[j].file] = onnxFile[conversion[j].file]
      BY <1>3, <1>4, <1>9, Idle DEF Typed, TypeOK, Conversion
    <2>3. d # NoConversion => d.file = c.file
      BY ConvertSelf
    <2>4. \A l \in Converters : l # k => conversion'[l] = conversion[l]
      BY <1>4
    <2> QED
      BY <1>1, <2>1, <2>2, <2>3, <2>4 DEF ConversionCoherent
  <1> QED
    BY <1>1, <1>5, <1>6, <1>8, <1>9 DEF UndisturbedInv

\* What a handler's step does to what it knows of its own model.
LEMMA OwnHandler ==
  ASSUME DistinctFiles, Undisturbed, Typed, UndisturbedInv,
         NEW w \in Workers, AcceptRequest(w) \/ RefuseRequest(w) \/ Handle(w)
  PROVE  CacheCoherent' /\ HandlerCoherent(w)'
  <1> DEFINE Kept == CacheCoherent' /\ HandlerCoherent(w)'
  <1>1. HandlerCoherent(w) /\ CacheCoherent
    BY DEF UndisturbedInv
  <1> USE DEF Typed, TypeOK, LocalsOK, CacheCoherent, HandlerCoherent
  <1>2. CASE AcceptRequest(w)
    <2>1. PICK r \in Requests : Goto(w, FirstStep[r.op])
      BY <1>2 DEF AcceptRequest
    <2>2. at'[w] \in {"exists", "eraseExecutor", "findExecutor", "list"}
      BY <2>1 DEF Goto, FirstStep, Operations, Request
    <2> QED
      BY <1>1, <1>2, <2>2 DEF AcceptRequest, registryVars
  <1>3. CASE RefuseRequest(w)
    BY <1>1, <1>3 DEF RefuseRequest, registryVars
  <1>4. CASE CheckExists(w) \/ ComputeModelId(w) \/ HasModel(w) \/ AnswerRegistered(w)
    BY <1>1, <1>4 DEF CheckExists, ComputeModelId, HasModel, AnswerRegistered, Fail, Answer, Goto,
       registryVars, localVars
  <1>5. CASE StartConversion(w) \/ ConversionFails(w) \/ ConversionTimesOut(w)
    BY <1>1, <1>5 DEF StartConversion, ConversionFails, ConversionTimesOut, Fail, Answer, Goto,
       registryVars
  <1>6. CASE FinishConversion(w)
    <2>1. /\ job[w] \in Converters /\ conversion[job[w]] # NoConversion
          /\ conversion[job[w]].file = OnnxPath[modelId[w]]
          /\ ConversionCoherent(job[w])
      BY <1>6, Idle DEF FinishConversion, JobsOK, UndisturbedInv
    <2>2. onnxFile[OnnxPath[modelId[w]]] = conversion[job[w]].read
      BY <1>6, <2>1 DEF FinishConversion, ConversionCoherent
    <2> QED
      BY <1>1, <1>6, <2>2 DEF FinishConversion, Goto, registryVars
  <1>7. CASE PublishModel(w)
    <2>1. executors[modelId[w]] = None /\ modelId[w] \in Ids
      BY <1>1, <1>7 DEF PublishModel, HasId, Steps, Registering
    <2>2. \A j \in Ids : models'[j] = IF j = modelId[w] THEN held[w] ELSE models[j]
      BY <1>7 DEF PublishModel
    <2>3. onnxFile[OnnxPath[modelId[w]]] = held[w]
      BY <1>1, <1>7 DEF PublishModel
    <2> QED
      BY <1>1, <1>7, <2>1, <2>2, <2>3 DEF PublishModel, Answer, Goto
  <1>8. CASE Unregister(w)
    BY <1>1, <1>8 DEF Unregister, EraseExecutor, EraseModel, Fail, Answer, Goto, localVars,
       HasId, Steps
  <1>9. CASE FindExecutor(w) \/ GetModel(w)
    BY <1>1, <1>9 DEF FindExecutor, GetModel, Fail, Answer, Goto, registryVars, localVars,
       HasId, Steps
  <1>10. CASE LoadModel(w) \/ LoadFails(w)
    BY <1>1, <1>10 DEF LoadModel, LoadFails, Fail, Answer, Goto, registryVars, HasId, Steps
  <1>11. CASE StoreExecutor(w)
    BY <1>1, <1>11 DEF StoreExecutor, Goto, localVars, HasId, Steps, Holding
  <1>12. CASE RunInference(w) \/ ListModels(w)
    BY <1>1, <1>12 DEF RunInference, ListModels, Fail, Answer, Goto, registryVars
  <1> QED
    BY <1>2, <1>3, <1>4, <1>5, <1>6, <1>7, <1>8, <1>9, <1>10, <1>11, <1>12
    DEF Handle, Register, Predict

\* A handler starts a conversion where none is, and registers no model being converted.
LEMMA StartedCoherent ==
  ASSUME DistinctFiles, Undisturbed, Typed, UndisturbedInv,
         NEW w \in Workers, AcceptRequest(w) \/ RefuseRequest(w) \/ Handle(w),
         NEW k \in Converters
  PROVE  ConversionCoherent(k)'
  <1>1. \A j \in Converters : ConversionCoherent(j)
    BY DEF UndisturbedInv
  <1>2. CASE StartConversion(w)
    <2>1. PICK l \in Converters :
            conversion' = [conversion EXCEPT ![l] =
              [path |-> request[w].path, file |-> OnnxPath[modelId[w]], phase |-> "loading",
               read |-> None, bytes |-> None, clash |-> FALSE]]
      BY <1>2, StartEffect
    <2>2. /\ conversion'[l].file = OnnxPath[modelId[w]] /\ conversion'[l].phase = "loading"
          /\ conversion'[l].clash = FALSE
      BY <2>1 DEF Typed, TypeOK
    <2>3. \A j \in Converters : j # l => conversion'[j] = conversion[j]
      BY <2>1 DEF Typed, TypeOK
    <2>4. at[w] = "convert" /\ onnxFile' = onnxFile /\ models' = models
      BY <1>2 DEF StartConversion, registryVars
    <2>5. \A i \in Ids : OnnxPath[i] = OnnxPath[modelId[w]] => models[i] = None
      BY <2>4, OwnFile DEF HasId, Steps, Registering, UndisturbedInv, HandlerCoherent
    <2>6. \A j \in Converters : conversion[j].file # OnnxPath[modelId[w]]
      BY <2>4, OwnFile DEF HasId, Steps, Registering
    <2>7. CASE k = l
      BY <2>2, <2>3, <2>4, <2>5, <2>6, <2>7 DEF ConversionCoherent
    <2>8. CASE k # l
      BY <1>1, <2>2, <2>3, <2>4, <2>6, <2>8 DEF ConversionCoherent
    <2> QED
      BY <2>7, <2>8
  <1>3. CASE PublishModel(w)
    <2>1. UNCHANGED <<onnxFile, conversion>> /\ models' = [models EXCEPT ![modelId[w]] = held[w]]
      BY <1>3 DEF PublishModel
    <2>2. \A j \in Converters : conversion[j].file # OnnxPath[modelId[w]]
      BY <1>3, OwnFile DEF PublishModel, HasId, Steps, Registering
    <2>3. \A i \in Ids : i # modelId[w] => models'[i] = models[i]
      BY <2>1 DEF Typed, TypeOK
    <2> QED
      BY <1>1, <2>1, <2>2, <2>3 DEF ConversionCoherent
  <1>4. CASE ~StartConversion(w) /\ ~PublishModel(w)
    <2>1. /\ onnxFile' = onnxFile
          /\ \A j \in Converters : conversion'[j] \in {conversion[j], NoConversion}
          /\ \A i \in Ids : models'[i] \in {models[i], None}
      <3>1. CASE FinishConversion(w) \/ ConversionFails(w) \/ ConversionTimesOut(w)
        BY <3>1 DEF FinishConversion, ConversionFails, ConversionTimesOut, registryVars, Typed,
           TypeOK
      <3>2. CASE \/ AcceptRequest(w) \/ RefuseRequest(w) \/ CheckExists(w)
                 \/ ComputeModelId(w) \/ HasModel(w) \/ AnswerRegistered(w)
                 \/ Unregister(w) \/ Predict(w) \/ ListModels(w)
        BY <3>2 DEF AcceptRequest, RefuseRequest, CheckExists, ComputeModelId, HasModel,
           AnswerRegistered, Unregister, EraseExecutor, EraseModel, Predict, FindExecutor,
           GetModel, LoadModel, LoadFails, StoreExecutor, RunInference, ListModels,
           registryVars, Typed, TypeOK
      <3> QED
        BY <1>4, <3>1, <3>2 DEF Handle, Register
    <2> QED
      BY <1>1, <2>1 DEF ConversionCoherent
  <1> QED
    BY <1>2, <1>3, <1>4

\* The steps of handlers: what each does to its model, and that no other model is touched.
LEMMA HandlerUndisturbed ==
  ASSUME DistinctFiles, Undisturbed, Typed, UndisturbedInv, Undisturbed', Typed',
         NEW w \in Workers, AcceptRequest(w) \/ RefuseRequest(w) \/ Handle(w)
  PROVE  UndisturbedInv'
  <1>1. shutdown' = shutdown
    BY DEF AcceptRequest, RefuseRequest, Handle, Register, Unregister, Predict, CheckExists,
       ComputeModelId, HasModel, AnswerRegistered, StartConversion, FinishConversion,
       ConversionFails, ConversionTimesOut, PublishModel, EraseExecutor, EraseModel,
       FindExecutor, GetModel, LoadModel, LoadFails, StoreExecutor, RunInference, ListModels
  <1>2. onnxFile' = onnxFile
    BY DEF AcceptRequest, RefuseRequest, Handle, Register, Unregister, Predict, CheckExists,
       ComputeModelId, HasModel, AnswerRegistered, StartConversion, FinishConversion,
       ConversionFails, ConversionTimesOut, PublishModel, EraseExecutor, EraseModel,
       FindExecutor, GetModel, LoadModel, LoadFails, StoreExecutor, RunInference, ListModels
  <1>3. ASSUME NEW v \in Workers \ {w}
        PROVE  at'[v] = at[v] /\ modelId'[v] = modelId[v] /\ held'[v] = held[v]
    BY DEF AcceptRequest, RefuseRequest, Handle, Register, Unregister, Predict, CheckExists,
       ComputeModelId, HasModel, AnswerRegistered, StartConversion, FinishConversion,
       ConversionFails, ConversionTimesOut, PublishModel, EraseExecutor, EraseModel,
       FindExecutor, GetModel, LoadModel, LoadFails, StoreExecutor, RunInference, ListModels,
       Fail, Answer, Goto, localVars, Typed, TypeOK
  <1>4. shutdown = "registry" => at[w] = "idle" /\ at'[w] = "idle"
    BY <1>1 DEF Undisturbed, ShutdownAlone
  <1>5. shutdown' = "registry" => \A i \in Ids : executors'[i] = None
    <2>1. at[w] = "idle" => executors' = executors
      BY DEF AcceptRequest, RefuseRequest, Handle, Register, Unregister, Predict, CheckExists,
         ComputeModelId, HasModel, AnswerRegistered, StartConversion, FinishConversion,
         ConversionFails, ConversionTimesOut, PublishModel, EraseExecutor, EraseModel,
         FindExecutor, GetModel, LoadModel, LoadFails, StoreExecutor, RunInference,
         ListModels, registryVars
    <2> QED
      BY <1>1, <1>4, <2>1 DEF UndisturbedInv
  <1> DEFINE i == modelId[w]
  <1>6. \/ UNCHANGED <<models, executors>>
        \/ /\ at[w] \in HasId
           /\ \A j \in Ids : j # i => models'[j] = models[j] /\ executors'[j] = executors[j]
    BY DEF AcceptRequest, RefuseRequest, Handle, Register, Unregister, Predict, CheckExists,
       ComputeModelId, HasModel, AnswerRegistered, StartConversion, FinishConversion,
       ConversionFails, ConversionTimesOut, PublishModel, EraseExecutor, EraseModel,
       FindExecutor, GetModel, LoadModel, LoadFails, StoreExecutor, RunInference, ListModels,
       registryVars, HasId, Steps, Registering, Typed, TypeOK
  <1>7. ASSUME NEW v \in Workers \ {w} PROVE HandlerCoherent(v)'
    <2>1. at[v] \in HasId /\ at[w] \in HasId => modelId[v] \in Ids /\ modelId[v] # i
      BY OwnFile
    <2>2. HandlerCoherent(v)
      BY DEF UndisturbedInv
    <2>3. CASE at[v] \in HasId
      BY <1>2, <1>3, <1>6, <2>1, <2>2, <2>3 DEF HandlerCoherent
    <2>4. CASE at[v] \notin HasId
      BY <1>3, <2>4 DEF HandlerCoherent, HasId, Steps, Registering
    <2> QED
      BY <2>3, <2>4
  <1>8. CacheCoherent' /\ HandlerCoherent(w)'
    BY OwnHandler
  <1>9. ASSUME NEW k \in Converters PROVE ConversionCoherent(k)'
    BY StartedCoherent
  <1> QED
    BY <1>5, <1>7, <1>8, <1>9 DEF UndisturbedInv

LEMMA UndisturbedStep ==
  ASSUME DistinctFiles, Undisturbed, Typed, UndisturbedInv, [Next]_vars, Undisturbed', Typed'
  PROVE  UndisturbedInv'
  <1>1. ASSUME NEW k \in Converters, Convert(k) PROVE UndisturbedInv'
    BY <1>1, ConvertUndisturbed
  <1>2. CASE Restart
    <2>1. /\ \A w \in Workers : at'[w] = "idle"
          /\ \A i \in Ids : models'[i] = None /\ executors'[i] = None
          /\ \A k \in Converters : conversion'[k] \in {conversion[k], NoConversion}
          /\ onnxFile' = onnxFile /\ shutdown' = "running"
      BY <1>2 DEF Restart
    <2>2. CacheCoherent' /\ \A w \in Workers : HandlerCoherent(w)'
      BY <2>1 DEF CacheCoherent, HandlerCoherent
    <2>3. ASSUME NEW k \in Converters PROVE ConversionCoherent(k)'
      BY <2>1 DEF UndisturbedInv, ConversionCoherent
    <2> QED
      BY <2>1, <2>2, <2>3 DEF UndisturbedInv
  <1>3. CASE Shutdown
    <2>1. UNCHANGED <<onnxFile, at, modelId, held, conversion>>
      BY <1>3 DEF Shutdown, ShutdownExecutors, ShutdownRegistry, ShutdownFlag, localVars
    <2>2. shutdown \in {"registry", "flag"} \/ shutdown' \in {"registry", "flag"}
      BY <1>3 DEF Shutdown, ShutdownExecutors, ShutdownRegistry, ShutdownFlag
    <2>3. \A w \in Workers : at[w] = "idle"
      BY <2>1, <2>2 DEF Undisturbed, ShutdownAlone
    <2>4. /\ \A i \in Ids : models'[i] \in {models[i], None} /\ executors'[i] \in {executors[i], None}
          /\ CacheCoherent'
          /\ shutdown' = "registry" => \A i \in Ids : executors'[i] = None
      BY <1>3, <2>1 DEF Shutdown, ShutdownExecutors, ShutdownRegistry, ShutdownFlag,
         registryVars, UndisturbedInv, CacheCoherent
    <2>5. \A w \in Workers : HandlerCoherent(w)'
      BY <2>1, <2>3 DEF HandlerCoherent
    <2>6. ASSUME NEW k \in Converters PROVE ConversionCoherent(k)'
      BY <2>1, <2>4 DEF UndisturbedInv, ConversionCoherent
    <2> QED
      BY <2>4, <2>5, <2>6 DEF UndisturbedInv
  <1>4. CASE (\E path \in Paths : EditSource(path)) \/ UNCHANGED vars
    <2>1. UNCHANGED <<models, executors, onnxFile, shutdown, at, modelId, held, conversion>>
      BY <1>4 DEF EditSource, vars, registryVars, localVars
    <2> QED
      BY <2>1 DEF UndisturbedInv, CacheCoherent, HandlerCoherent, ConversionCoherent
  <1>5. ASSUME NEW w \in Workers, AcceptRequest(w) \/ RefuseRequest(w) \/ Handle(w)
        PROVE  UndisturbedInv'
    BY <1>5, HandlerUndisturbed
  <1> QED
    BY <1>1, <1>2, <1>3, <1>4, <1>5 DEF Next

LEMMA UndisturbedInvariance ==
  ASSUME DistinctFiles
  PROVE  UndisturbedSpec => Spec /\ [](Undisturbed /\ Typed /\ UndisturbedInv)
  <1>1. Init => Undisturbed /\ UndisturbedInv
    BY DEF Init, Undisturbed, OneUser, ShutdownAlone, CopyUnedited, UndisturbedInv, CacheCoherent,
       HandlerCoherent, ConversionCoherent, NoConversion
  <1>2. [Next /\ Undisturbed']_vars => [Next]_vars
    OBVIOUS
  <1>3. Undisturbed /\ [Next /\ Undisturbed']_vars => Undisturbed'
    BY DEF Undisturbed, OneUser, ShutdownAlone, CopyUnedited, vars, localVars, envVars
  <1>4. Typed /\ [Next]_vars => Typed'
    BY NextTyped
  <1>5. Undisturbed /\ Typed /\ UndisturbedInv /\ [Next]_vars /\ Undisturbed' /\ Typed'
          => UndisturbedInv'
    BY UndisturbedStep
  <1> QED
    BY <1>1, <1>2, <1>3, <1>4, <1>5, AlwaysTyped, PTL DEF UndisturbedSpec, Spec

\* While uses of one model do not overlap, on any number of workers, the executor cache, the
\* registry and the cache directory agree about every model, whatever files change, and
\* whatever becomes of converters that failed, were given up or outlived a crash.
THEOREM UndisturbedCoherence ==
  ASSUME DistinctFiles
  PROVE  UndisturbedSpec => []CacheCoherent
  <1>1. UndisturbedInv => CacheCoherent
    BY DEF UndisturbedInv
  <1> QED
    BY UndisturbedInvariance, <1>1, PTL

-----------------------------------------------------------------------------
(* The service then implements ModelCatalog: the answering step of a       *)
(* handler is the abstract request, every other step changes nothing a     *)
(* client sees.                                                            *)

\* Handlers that answer with an error code.
LEMMA FailRefuses ==
  ASSUME Typed, NEW w \in Workers, NEW code \in Errors, Fail(w, code),
         at[w] # "idle", request[w].op # "list", UNCHANGED models
  PROVE  Catalog!Refuse(w)
  <1>1. request[w].op \in {"register", "unregister", "predict"}
    BY DEF Typed, LocalsOK, Request, Operations
  <1>2. Catalog!Tell(w, request[w].op, code, None, None)
    BY DEF Fail, Answer, Catalog!Tell
  <1> QED
    BY <1>1, <1>2 DEF Catalog!Refuse

\* Which operation a handler's step belongs to.
OperationOK ==
  \A w \in Workers :
    /\ at[w] = "list" => request[w].op = "list"
    /\ at[w] \in {"eraseExecutor", "eraseModel"} => request[w].op = "unregister"
    /\ at[w] \in {"findExecutor", "getModel", "load", "store", "infer"}
         => request[w].op = "predict"

LEMMA OperationStep == Typed /\ OperationOK /\ [Next]_vars => OperationOK'
  <1> SUFFICES ASSUME Typed, OperationOK, [Next]_vars PROVE OperationOK'
    OBVIOUS
  <1> USE DEF Typed, TypeOK, LocalsOK, OperationOK
  <1>1. ASSUME NEW w \in Workers, AcceptRequest(w) \/ RefuseRequest(w) PROVE OperationOK'
    BY <1>1 DEF AcceptRequest, RefuseRequest, Goto, FirstStep, Operations, Request, localVars
  <1>2. ASSUME NEW w \in Workers, Register(w) PROVE OperationOK'
    BY <1>2 DEF Register, CheckExists, ComputeModelId, HasModel, AnswerRegistered,
       StartConversion, FinishConversion, ConversionFails, ConversionTimesOut, PublishModel,
       Fail, Answer, Goto, localVars
  <1>3. ASSUME NEW w \in Workers, Unregister(w) \/ Predict(w) \/ ListModels(w)
        PROVE  OperationOK'
    BY <1>3 DEF Unregister, EraseExecutor, EraseModel, Predict, FindExecutor, GetModel,
       LoadModel, LoadFails, StoreExecutor, RunInference, ListModels, Fail, Answer, Goto,
       localVars
  <1>4. CASE Shutdown \/ (\E path \in Paths : EditSource(path)) \/ UNCHANGED vars
    BY <1>4 DEF Shutdown, ShutdownExecutors, ShutdownRegistry, ShutdownFlag, EditSource,
       vars, localVars
  <1>5. CASE Restart
    BY <1>5 DEF Restart
  <1>6. ASSUME NEW k \in Converters, Convert(k) PROVE OperationOK'
    BY <1>6, ConvertFrame DEF localVars
  <1> QED
    BY <1>1, <1>2, <1>3, <1>4, <1>5, <1>6 DEF Next, Handle

LEMMA RefinementStep ==
  ASSUME Typed, OperationOK, UndisturbedInv, [Next]_vars
  PROVE  [Catalog!Next]_Catalog!vars
  <1> USE DEF Typed, TypeOK, LocalsOK, OperationOK
  <1> DEFINE Stutter == UNCHANGED <<models, reply>>
  <1>1. ASSUME NEW w \in Workers, AcceptRequest(w) PROVE Catalog!Ask(w)
    BY <1>1 DEF AcceptRequest, Catalog!Ask, registryVars
  <1>2. ASSUME NEW w \in Workers, RefuseRequest(w) PROVE Catalog!Refuse(w)
    <2>1. PICK r \in Requests :
            /\ r.op # "list"
            /\ reply' = [reply EXCEPT ![w] = [op |-> r.op, code |-> "SERVICE_UNAVAILABLE",
                                              id |-> None, of |-> None]]
      BY <1>2 DEF RefuseRequest
    <2>2. r.op \in {"register", "unregister", "predict"}
      BY <2>1 DEF Request, Operations
    <2>3. "SERVICE_UNAVAILABLE" \in Errors /\ UNCHANGED models
      BY <1>2 DEF Errors, RefuseRequest, registryVars
    <2> QED
      BY <2>1, <2>2, <2>3 DEF Catalog!Refuse, Catalog!Tell
  <1>3. ASSUME NEW w \in Workers, CheckExists(w) PROVE Catalog!Refuse(w) \/ Stutter
    <2>1. "MODEL_NOT_FOUND" \in Errors /\ UNCHANGED models
          /\ at[w] # "idle" /\ request[w].op # "list"
      BY <1>3 DEF CheckExists, Errors, Registering, registryVars
    <2>2. Fail(w, "MODEL_NOT_FOUND") \/ UNCHANGED reply
      BY <1>3 DEF CheckExists
    <2> QED
      BY <2>1, <2>2, FailRefuses
  <1>4. ASSUME NEW w \in Workers,
               \/ ComputeModelId(w) \/ HasModel(w) \/ StartConversion(w) \/ FinishConversion(w)
               \/ EraseExecutor(w) \/ FindExecutor(w) \/ LoadModel(w) \/ StoreExecutor(w)
        PROVE  Stutter
    BY <1>4 DEF ComputeModelId, HasModel, StartConversion, FinishConversion, EraseExecutor,
       FindExecutor, LoadModel, StoreExecutor, registryVars
  <1>5. ASSUME NEW w \in Workers, ConversionFails(w) \/ ConversionTimesOut(w)
        PROVE  Catalog!Refuse(w)
    <2>1. PICK code \in Errors : Fail(w, code)
      BY <1>5 DEF ConversionFails, ConversionTimesOut, ConversionError, Errors
    <2>2. at[w] # "idle" /\ request[w].op # "list" /\ UNCHANGED models
      BY <1>5 DEF ConversionFails, ConversionTimesOut, Registering, registryVars
    <2> QED
      BY <2>1, <2>2, FailRefuses
  <1>6. ASSUME NEW w \in Workers, PublishModel(w)
        PROVE  Catalog!Register(w, modelId[w], held[w])
    BY <1>6 DEF PublishModel, Answer, UndisturbedInv, HandlerCoherent, Catalog!Register,
       Catalog!Tell, Registering
  <1>7. ASSUME NEW w \in Workers, AnswerRegistered(w)
        PROVE  Catalog!RegisterAgain(w, modelId[w])
    BY <1>7 DEF AnswerRegistered, Answer, UndisturbedInv, HandlerCoherent, registryVars,
       Catalog!RegisterAgain, Catalog!Tell, Registering
  <1>8. ASSUME NEW w \in Workers, EraseModel(w)
        PROVE  Catalog!Unregister(w, modelId[w]) \/ Catalog!Refuse(w)
    <2>1. modelId[w] \in Ids /\ request[w].op = "unregister" /\ at[w] # "idle"
      BY <1>8 DEF EraseModel, HasId, Steps
    <2>2. CASE models[modelId[w]] = None
      <3>1. UNCHANGED models /\ Fail(w, "MODEL_NOT_FOUND")
        BY <1>8, <2>1, <2>2 DEF EraseModel
      <3> QED
        BY <2>1, <3>1, FailRefuses DEF Errors
    <2>3. CASE models[modelId[w]] # None
      BY <1>8, <2>1, <2>3 DEF EraseModel, Answer, Catalog!Unregister, Catalog!Tell
    <2> QED
      BY <2>2, <2>3
  <1>9. ASSUME NEW w \in Workers, GetModel(w) PROVE Catalog!Refuse(w) \/ Stutter
    <2>1. "MODEL_NOT_FOUND" \in Errors /\ UNCHANGED models
          /\ at[w] # "idle" /\ request[w].op # "list"
      BY <1>9 DEF GetModel, Errors, registryVars
    <2>2. Fail(w, "MODEL_NOT_FOUND") \/ UNCHANGED reply
      BY <1>9 DEF GetModel
    <2> QED
      BY <2>1, <2>2, FailRefuses
  <1>10. ASSUME NEW w \in Workers, LoadFails(w) PROVE Catalog!Refuse(w)
    <2>1. PICK code \in Errors : Fail(w, code)
      BY <1>10 DEF LoadFails, Errors
    <2>2. at[w] # "idle" /\ request[w].op # "list" /\ UNCHANGED models
      BY <1>10 DEF LoadFails, registryVars
    <2> QED
      BY <2>1, <2>2, FailRefuses
  <1>11. ASSUME NEW w \in Workers, RunInference(w)
         PROVE  Catalog!Predict(w, modelId[w]) \/ Catalog!Refuse(w)
    <2>1. /\ at[w] # "idle" /\ request[w].op = "predict" /\ UNCHANGED models
          /\ held[w] = models[modelId[w]] /\ models[modelId[w]] # None
      BY <1>11 DEF RunInference, UndisturbedInv, HandlerCoherent, registryVars
    <2>2. CASE Answer(w, "SUCCESS", modelId[w], held[w])
      BY <2>1, <2>2 DEF Answer, Catalog!Predict, Catalog!Tell
    <2>3. CASE Fail(w, "INFERENCE_FAILED")
      BY <2>1, <2>3, FailRefuses DEF Errors
    <2> QED
      BY <1>11, <2>2, <2>3 DEF RunInference
  <1>12. ASSUME NEW w \in Workers, ListModels(w) PROVE Catalog!List(w)
    BY <1>12 DEF ListModels, Answer, Catalog!List, Catalog!Tell, registryVars
  <1>13. CASE Shutdown
    <2>1. Catalog!Close \/ Stutter
      BY <1>13 DEF Shutdown, ShutdownExecutors, ShutdownRegistry, ShutdownFlag,
         registryVars, Catalog!Close
    <2> QED
      BY <2>1 DEF Catalog!Next, Catalog!vars
  <1>14. CASE (\E path \in Paths : EditSource(path)) \/ UNCHANGED vars
    BY <1>14 DEF EditSource, vars, registryVars, Catalog!vars
  <1>15. ASSUME NEW w \in Workers, at[w] \in {"get", "publish", "eraseModel", "infer"}
         PROVE  modelId[w] \in Ids /\ (at[w] = "publish" => held[w] \in Contents)
    BY <1>15 DEF HasId, Holding, Steps, Registering
  <1>16. ASSUME NEW w \in Workers, AcceptRequest(w) \/ RefuseRequest(w) \/ Handle(w)
         PROVE  Catalog!Next \/ Stutter
    <2>1. CASE PublishModel(w)
      BY <2>1, <1>6, <1>15 DEF PublishModel, Catalog!Next
    <2>2. CASE AnswerRegistered(w)
      BY <2>2, <1>7, <1>15 DEF AnswerRegistered, Catalog!Next
    <2>3. CASE EraseModel(w)
      BY <2>3, <1>8, <1>15 DEF EraseModel, Catalog!Next
    <2>4. CASE RunInference(w)
      BY <2>4, <1>11, <1>15 DEF RunInference, Catalog!Next
    <2>5. CASE \/ RefuseRequest(w) \/ CheckExists(w) \/ ConversionFails(w)
               \/ ConversionTimesOut(w) \/ GetModel(w) \/ LoadFails(w)
      BY <2>5, <1>2, <1>3, <1>5, <1>9, <1>10 DEF Catalog!Next
    <2>6. CASE AcceptRequest(w) \/ ListModels(w)
      BY <2>6, <1>1, <1>12 DEF Catalog!Next
    <2> QED
      BY <1>16, <1>4, <2>1, <2>2, <2>3, <2>4, <2>5, <2>6
      DEF Handle, Register, Unregister, Predict
  <1>17. ASSUME NEW w \in Workers, AcceptRequest(w) \/ RefuseRequest(w) \/ Handle(w)
         PROVE  [Catalog!Next]_Catalog!vars
    BY <1>16, <1>17 DEF Catalog!vars
  <1>18. CASE Restart
    <2>1. Catalog!Restart
      BY <1>18 DEF Restart, Catalog!Restart
    <2> QED
      BY <2>1 DEF Catalog!Next
  <1>19. ASSUME NEW k \in Converters, Convert(k) PROVE [Catalog!Next]_Catalog!vars
    BY <1>19, ConvertFrame DEF registryVars, Catalog!vars
  <1> QED
    BY <1>13, <1>14, <1>17, <1>18, <1>19 DEF Next

\* While uses of one model do not overlap, every request has the effect and the answer of an
\* atomic operation on a catalog of models, though handlers of other models, converters
\* that nobody waits for, and edits of model files come between the steps of its own.
THEOREM UndisturbedRefinement ==
  ASSUME DistinctFiles
  PROVE  UndisturbedSpec => ImplementsCatalog
  <1>1. Init => Catalog!Init /\ OperationOK
    BY DEF Init, Catalog!Init, OperationOK
  <1>2. Typed /\ OperationOK /\ [Next]_vars => OperationOK'
    BY OperationStep
  <1>3. Typed /\ OperationOK /\ UndisturbedInv /\ [Next]_vars => [Catalog!Next]_Catalog!vars
    BY RefinementStep
  <1> QED
    BY <1>1, <1>2, <1>3, UndisturbedInvariance, PTL
    DEF Spec, ImplementsCatalog, Catalog!Spec

=============================================================================
