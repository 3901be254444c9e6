---------------------------- MODULE RuntimeState ----------------------------
(***************************************************************************)
(* The model manager of the runtime service: RuntimeState (the request     *)
(* handlers), the ModelRegistry it owns, its cache of ONNXExecutors, and   *)
(* the cache directory the converted models are written to                 *)
(* (runtime/service/runtime_state.cpp, model_registry.cpp).                *)
(*                                                                         *)
(* Handlers run on the worker threads of the pipe server, several at once. *)
(* registry_ and executors_ have a mutex each; a handler takes and drops   *)
(* them several times, and holds neither while it touches a file. An       *)
(* action below is one critical section, or one access to the file system, *)
(* so TLC interleaves the handlers at every point where the code lets      *)
(* another one in.                                                         *)
(*                                                                         *)
(* A converter is a process: it goes on when the handler that started it   *)
(* has given it up after 60 seconds, and when the service has crashed. It  *)
(* is ConverterProcess and Conversion that have the inside of it.          *)
(*                                                                         *)
(* A model's bytes are a member of Contents, and so is everything that     *)
(* conversion makes out of them: the .onnx file, the metadata parsed from  *)
(* the converter's answer, the ONNX Runtime session. What a definition     *)
(* says about which content an entry holds is therefore what the code      *)
(* guarantees about the origin of that entry.                              *)
(***************************************************************************)
EXTENDS Naturals, FiniteSets

CONSTANTS
  Workers,          \* worker threads of the pipe server
  Paths,            \* model paths clients name
  Contents,         \* what a model file or package may contain
  Ids,              \* model ids: strings
  ContentHash,      \* SHA-256 of a content, in hex
  PathHash,         \* std::hash of a path, in decimal
  Unhashable,       \* paths ComputeModelHash cannot read: packages and other
                    \*   directories, every path when CryptoAPI is unavailable
  Files,            \* files of the cache directory
  OnnxPath,         \* the file cache_dir_/<id>.onnx of an id
  OnnxPaths,        \* paths with extension .onnx: the service copies the file itself
  CopiedPaths,      \* paths whose converter reads the model to check it, and again to
                    \*   copy it: .ONNX and other ONNX files without that extension
  Converters,       \* bound on conversions at a time: names for them
  Requests,         \* the requests clients may send
  None,             \* no content, no id, no path
  Torn,             \* bytes that are not one complete model: being written, left
                    \*   by a writer that was stopped, or written by two at once
  MaxEdits,         \* bound on edits of source files
  MaxRestarts,      \* bound on restarts of the service
  StableSources     \* TRUE: no model file changes while it is being registered or converted

Operations == {"register", "unregister", "predict", "list"}

\* A register request's id is its cache_key, None when the client gave none.
Request == [op : Operations, path : Paths \cup {None}, id : Ids \cup {None}]

ASSUME NoneAssumption ==
  /\ None \notin Contents /\ None \notin Ids /\ None \notin Paths
  /\ None \notin Converters
  /\ Torn \notin Contents /\ Torn # None
ASSUME HashAssumption ==
  /\ ContentHash \in [Contents -> Ids]
  /\ PathHash \in [Paths -> Ids]
ASSUME FileAssumption == OnnxPath \in [Ids -> Files]
\* SHA-256 is taken to be free of collisions. Its 64 hex digits are never the
\* at most 20 decimal digits of a std::hash, nor are the file names made of them.
ASSUME InjectiveHash ==
  /\ \A c, d \in Contents : OnnxPath[ContentHash[c]] = OnnxPath[ContentHash[d]] => c = d
  /\ \A c \in Contents, p \in Paths : OnnxPath[ContentHash[c]] # OnnxPath[PathHash[p]]
ASSUME RequestAssumption ==
  /\ Requests \subseteq Request
  /\ \A r \in Requests :
       /\ r.op = "register" => r.path \in Paths
       /\ r.op \in {"unregister", "predict"} => r.id \in Ids
ASSUME BoundAssumption ==
  /\ MaxEdits \in Nat /\ MaxRestarts \in Nat
  /\ StableSources \in BOOLEAN

VARIABLES
  initialized,  \* initialized_
  models,       \* registry_.models_: the content each entry's metadata is about
  executors,    \* executors_: the content each cached session was loaded from
  onnxFile,     \* the cache directory
  source,       \* what clients keep at the model paths
  edits,        \* edits of source so far
  restarts,     \* restarts of the service so far
  shutdown,     \* how far Shutdown has come
  at,           \* per worker: the next step of its handler
  request,      \* per worker: the request in hand
  modelId,      \* per worker: the handler's model_id
  held,         \* per worker: content in the handler's locals (metadata, executor)
  job,          \* per worker: the conversion it waits for
  conversion,   \* the conversions that run, those nobody waits for included
  reply         \* per worker: its last response

registryVars == <<models, executors>>
envVars == <<source, edits, restarts>>
localVars == <<request, modelId, held, job>>
vars == <<initialized, registryVars, onnxFile, envVars, shutdown, at, localVars, conversion, reply>>

-----------------------------------------------------------------------------
Errors == {"SERVICE_UNAVAILABLE", "MODEL_NOT_FOUND", "MODEL_LOAD_FAILED",
           "INVALID_ARGUMENT", "MODEL_CONVERSION_FAILED", "TIMEOUT",
           "INFERENCE_FAILED"}

NoRequest == [op |-> "none", path |-> None, id |-> None]
NoReply == [op |-> "none", code |-> "none", id |-> None, of |-> None]
Reply == [op : Operations, code : {"SUCCESS"} \cup Errors,
          id : Ids \cup {None}, of : Contents \cup {None}]

\* path and file are the arguments; read is what the metadata is taken from, bytes what is
\* being written; clash: another conversion has written the file meanwhile.
NoConversion == [path |-> None, file |-> None, phase |-> "none", read |-> None, bytes |-> None,
                 clash |-> FALSE]
Conversion == [path : Paths, file : Files,
               phase : {"loading", "loaded", "writing", "done", "failed"},
               read : Contents \cup {None}, bytes : Contents \cup {None}, clash : BOOLEAN]

Init ==
  /\ initialized = TRUE
  /\ models = [i \in Ids |-> None]
  /\ executors = [i \in Ids |-> None]
  /\ onnxFile = [f \in Files |-> None]
  /\ source \in [Paths -> Contents]
  /\ edits = 0 /\ restarts = 0
  /\ shutdown = "running"
  /\ at = [w \in Workers |-> "idle"]
  /\ request = [w \in Workers |-> NoRequest]
  /\ modelId = [w \in Workers |-> None]
  /\ held = [w \in Workers |-> None]
  /\ job = [w \in Workers |-> None]
  /\ conversion = [k \in Converters |-> NoConversion]
  /\ reply = [w \in Workers |-> NoReply]

Goto(w, step) == at' = [at EXCEPT ![w] = step]

\* The handler returns: its locals go out of scope, the response is what stays.
Answer(w, code, id, content) ==
  /\ Goto(w, "idle")
  /\ reply' = [reply EXCEPT ![w] =
                 [op |-> request[w].op, code |-> code, id |-> id, of |-> content]]
  /\ request' = [request EXCEPT ![w] = NoRequest]
  /\ modelId' = [modelId EXCEPT ![w] = None]
  /\ held' = [held EXCEPT ![w] = None]
  /\ job' = [job EXCEPT ![w] = None]

Fail(w, code) == Answer(w, code, None, None)

-----------------------------------------------------------------------------
(* Receiving a request. The handlers read initialized_ first; ListModels   *)
(* does not read it at all.                                                *)

FirstStep == [register |-> "exists", unregister |-> "eraseExecutor",
              predict |-> "findExecutor", list |-> "list"]

AcceptRequest(w) ==
  /\ at[w] = "idle"
  /\ \E r \in Requests :
       /\ r.op = "list" \/ initialized
       /\ request' = [request EXCEPT ![w] = r]
       /\ modelId' = [modelId EXCEPT ![w] = IF r.op = "register" THEN None ELSE r.id]
       /\ Goto(w, FirstStep[r.op])
  /\ reply' = [reply EXCEPT ![w] = NoReply]
  /\ UNCHANGED <<initialized, registryVars, onnxFile, envVars, shutdown, held, job, conversion>>

RefuseRequest(w) ==
  /\ at[w] = "idle"
  /\ ~initialized
  /\ \E r \in Requests :
       /\ r.op # "list"
       /\ reply' = [reply EXCEPT ![w] = [op |-> r.op, code |-> "SERVICE_UNAVAILABLE",
                                         id |-> None, of |-> None]]
  /\ UNCHANGED <<initialized, registryVars, onnxFile, envVars, shutdown, at, localVars, conversion>>

-----------------------------------------------------------------------------
(* RegisterModel *)

CheckExists(w) ==
  /\ at[w] = "exists"
  /\ IF source[request[w].path] = None
     THEN Fail(w, "MODEL_NOT_FOUND")
     ELSE Goto(w, "hash") /\ UNCHANGED <<localVars, reply>>
  /\ UNCHANGED <<initialized, registryVars, onnxFile, envVars, shutdown, conversion>>

\* Mutated form: `while (file.read(...))` without `|| file.gcount() > 0` never
\* hashes the last, partial chunk: every small file has one hash.
HashWithoutLastChunk(path) ==
  IF path \in Unhashable \/ source[path] = None
  THEN PathHash[path]
  ELSE ContentHash[CHOOSE c \in Contents : TRUE]

ComputeModelHash(path) ==
  IF path \in Unhashable \/ source[path] = None
  THEN PathHash[path]
  ELSE ContentHash[source[path]]

ComputeModelId(w) ==
  /\ at[w] = "hash"
  /\ LET r == request[w]
     IN  modelId' = [modelId EXCEPT ![w] =
                       IF r.id = None THEN ComputeModelHash(r.path) ELSE r.id]
  /\ Goto(w, "has")
  /\ UNCHANGED <<initialized, registryVars, onnxFile, envVars, shutdown, request,
                 held, job, conversion, reply>>

\* Mutated form: no check for an existing registration.
AlwaysConvert(w) ==
  /\ at[w] = "has"
  /\ Goto(w, "convert")
  /\ UNCHANGED <<initialized, registryVars, onnxFile, envVars, shutdown, localVars, conversion, reply>>

\* HasModel and, later and under another lock, GetModel: the entry may be gone
\* by then, and GetModel's result is not looked at.
HasModel(w) ==
  /\ at[w] = "has"
  /\ Goto(w, IF models[modelId[w]] = None THEN "convert" ELSE "get")
  /\ UNCHANGED <<initialized, registryVars, onnxFile, envVars, shutdown, localVars, conversion, reply>>

AnswerRegistered(w) ==
  /\ at[w] = "get"
  /\ Answer(w, "SUCCESS", modelId[w], models[modelId[w]])
  /\ UNCHANGED <<initialized, registryVars, onnxFile, envVars, shutdown, conversion>>

\* RunConverterWorker starts the conversion: copy_file in the handler itself for an .onnx
\* path, a Python process otherwise.
StartConversion(w) ==
  /\ at[w] = "convert"
  /\ LET free == {k \in Converters : conversion[k] = NoConversion}
         k == CHOOSE k \in free : TRUE
     IN  /\ free # {}
         /\ job' = [job EXCEPT ![w] = k]
         /\ conversion' = [conversion EXCEPT ![k] =
                             [path |-> request[w].path, file |-> OnnxPath[modelId[w]],
                              phase |-> "loading", read |-> None, bytes |-> None,
                              clash |-> FALSE]]
  /\ Goto(w, "converting")
  /\ UNCHANGED <<initialized, registryVars, onnxFile, envVars, shutdown, request, modelId,
                 held, reply>>

\* The result says "success": true, and the metadata is in the handler's locals.
FinishConversion(w) ==
  /\ at[w] = "converting"
  /\ conversion[job[w]].phase = "done"
  /\ held' = [held EXCEPT ![w] = conversion[job[w]].read]
  /\ job' = [job EXCEPT ![w] = None]
  /\ conversion' = [conversion EXCEPT ![job[w]] = NoConversion]
  /\ Goto(w, "publish")
  /\ UNCHANGED <<initialized, registryVars, onnxFile, envVars, shutdown, request, modelId,
                 reply>>

ConversionError(path) ==
  IF path \in OnnxPaths THEN "MODEL_LOAD_FAILED" ELSE "MODEL_CONVERSION_FAILED"

\* Mutated form: a failed conversion removes its output file.
FailureRemovesOutput(w) ==
  /\ \/ at[w] = "convert" /\ UNCHANGED <<conversion, onnxFile>>
     \/ /\ at[w] = "converting" /\ conversion[job[w]].phase = "failed"
        /\ conversion' = [conversion EXCEPT ![job[w]] = NoConversion]
        /\ onnxFile' = [onnxFile EXCEPT ![OnnxPath[modelId[w]]] = None]
  /\ Fail(w, ConversionError(request[w].path))
  /\ UNCHANGED <<initialized, registryVars, envVars, shutdown>>

\* No pipe, no process, no file to copy; or the conversion itself has failed.
ConversionFails(w) ==
  /\ \/ at[w] = "convert" /\ UNCHANGED conversion
     \/ /\ at[w] = "converting" /\ conversion[job[w]].phase = "failed"
        /\ conversion' = [conversion EXCEPT ![job[w]] = NoConversion]
  /\ Fail(w, ConversionError(request[w].path))
  /\ UNCHANGED <<initialized, registryVars, onnxFile, envVars, shutdown>>

\* After 60 seconds the converter is told to end, and given up: nobody waits for it to.
ConversionTimesOut(w) ==
  /\ at[w] = "converting"
  /\ request[w].path \notin OnnxPaths
  /\ conversion[job[w]].phase \notin {"done", "failed"}
  /\ Fail(w, "TIMEOUT")
  /\ UNCHANGED <<initialized, registryVars, onnxFile, envVars, shutdown, conversion>>

\* registry_.RegisterModel, which overwrites.
PublishModel(w) ==
  /\ at[w] = "publish"
  /\ models' = [models EXCEPT ![modelId[w]] = held[w]]
  /\ Answer(w, "SUCCESS", modelId[w], held[w])
  /\ UNCHANGED <<initialized, executors, onnxFile, envVars, shutdown, conversion>>

-----------------------------------------------------------------------------
(* What a conversion does, in its process or in the handler that copies.   *)

Writers(file) ==
  {k \in Converters : conversion[k].file = file /\ conversion[k].phase = "writing"}

Waited(k) == \E w \in Workers : job[w] = k

\* It ends. When nobody waits for it that is all; a handler that does looks at how.
End(k, phase) ==
  conversion' = [conversion EXCEPT ![k] =
    IF Waited(k) THEN [@ EXCEPT !.phase = phase, !.bytes = None, !.clash = FALSE]
                 ELSE NoConversion]

\* The converter reads the model.
LoadSource(k) ==
  LET c == conversion[k] IN
  /\ c.phase = "loading"
  /\ c.path \notin OnnxPaths
  /\ source[c.path] # None
  /\ conversion' = [conversion EXCEPT ![k].phase = "loaded", ![k].read = source[c.path]]
  /\ UNCHANGED <<initialized, registryVars, onnxFile, envVars, shutdown, at, localVars, reply>>

\* The output is opened for writing, which truncates it. A copy reads its source then.
OpenOutput(k) ==
  LET c == conversion[k]
      bytes == IF c.path \in OnnxPaths \cup CopiedPaths THEN source[c.path] ELSE c.read
      others == Writers(c.file)
  IN
  /\ c.phase = IF c.path \in OnnxPaths THEN "loading" ELSE "loaded"
  /\ bytes # None
  /\ onnxFile' = [onnxFile EXCEPT ![c.file] = Torn]
  /\ conversion' =
       [j \in Converters |->
          IF j = k
          THEN [c EXCEPT !.phase = "writing", !.bytes = bytes, !.clash = others # {},
                         !.read = IF c.path \in OnnxPaths THEN bytes ELSE c.read]
          ELSE IF j \in others THEN [conversion[j] EXCEPT !.clash = TRUE]
          ELSE conversion[j]]
  /\ UNCHANGED <<initialized, registryVars, envVars, shutdown, at, localVars, reply>>

CloseOutput(k) ==
  LET c == conversion[k] IN
  /\ c.phase = "writing"
  /\ \E bytes \in {c.bytes} \cup (IF c.clash THEN {Torn} ELSE {}) :
       onnxFile' = [onnxFile EXCEPT ![c.file] = bytes]
  /\ End(k, "done")
  /\ UNCHANGED <<initialized, registryVars, envVars, shutdown, at, localVars, reply>>

\* An exception, a copy error, or the end of a terminated process: before the output was
\* opened, with the output half written, or after it was complete.
StopConverting(k) ==
  LET c == conversion[k] IN
  /\ \/ c.phase \in {"loading", "loaded"} /\ UNCHANGED onnxFile
     \/ /\ c.phase = "writing"
        /\ \E bytes \in {Torn, c.bytes} : onnxFile' = [onnxFile EXCEPT ![c.file] = bytes]
  /\ End(k, "failed")
  /\ UNCHANGED <<initialized, registryVars, envVars, shutdown, at, localVars, reply>>

Convert(k) == LoadSource(k) \/ OpenOutput(k) \/ CloseOutput(k) \/ StopConverting(k)

-----------------------------------------------------------------------------
(* UnregisterModel *)

\* Mutated form: the cached executor is left behind.
KeepExecutor(w) ==
  /\ at[w] = "eraseExecutor"
  /\ Goto(w, "eraseModel")
  /\ UNCHANGED <<initialized, registryVars, onnxFile, envVars, shutdown, localVars, conversion, reply>>

EraseExecutor(w) ==
  /\ at[w] = "eraseExecutor"
  /\ executors' = [executors EXCEPT ![modelId[w]] = None]
  /\ Goto(w, "eraseModel")
  /\ UNCHANGED <<initialized, models, onnxFile, envVars, shutdown, localVars, conversion, reply>>

EraseModel(w) ==
  /\ at[w] = "eraseModel"
  /\ models' = [models EXCEPT ![modelId[w]] = None]
  /\ IF models[modelId[w]] = None
     THEN Fail(w, "MODEL_NOT_FOUND")
     ELSE Answer(w, "SUCCESS", modelId[w], None)
  /\ UNCHANGED <<initialized, executors, onnxFile, envVars, shutdown, conversion>>

-----------------------------------------------------------------------------
(* Predict and GetOrCreateExecutor *)

FindExecutor(w) ==
  /\ at[w] = "findExecutor"
  /\ held' = [held EXCEPT ![w] = executors[modelId[w]]]
  /\ Goto(w, IF executors[modelId[w]] = None THEN "getModel" ELSE "infer")
  /\ UNCHANGED <<initialized, registryVars, onnxFile, envVars, shutdown, request,
                 modelId, job, conversion, reply>>

GetModel(w) ==
  /\ at[w] = "getModel"
  /\ IF models[modelId[w]] = None
     THEN Fail(w, "MODEL_NOT_FOUND")
     ELSE Goto(w, "load") /\ UNCHANGED <<localVars, reply>>
  /\ UNCHANGED <<initialized, registryVars, onnxFile, envVars, shutdown, conversion>>

\* Mutated form: a load that does not notice an incomplete file.
LoadUnchecked(w) ==
  /\ at[w] = "load"
  /\ held' = [held EXCEPT ![w] = onnxFile[OnnxPath[modelId[w]]]]
  /\ Goto(w, "store")
  /\ UNCHANGED <<initialized, registryVars, onnxFile, envVars, shutdown, request,
                 modelId, job, conversion, reply>>

LoadModel(w) ==
  /\ at[w] = "load"
  /\ onnxFile[OnnxPath[modelId[w]]] \in Contents
  /\ held' = [held EXCEPT ![w] = onnxFile[OnnxPath[modelId[w]]]]
  /\ Goto(w, "store")
  /\ UNCHANGED <<initialized, registryVars, onnxFile, envVars, shutdown, request,
                 modelId, job, conversion, reply>>

\* ValidateModelPath finds no file, or ONNX Runtime rejects what it finds.
LoadFails(w) ==
  /\ at[w] = "load"
  /\ Fail(w, IF onnxFile[OnnxPath[modelId[w]]] = None THEN "INVALID_ARGUMENT" ELSE "MODEL_LOAD_FAILED")
  /\ UNCHANGED <<initialized, registryVars, onnxFile, envVars, shutdown, conversion>>

StoreExecutor(w) ==
  /\ at[w] = "store"
  /\ executors' = [executors EXCEPT ![modelId[w]] = held[w]]
  /\ Goto(w, "infer")
  /\ UNCHANGED <<initialized, models, onnxFile, envVars, shutdown, localVars, conversion, reply>>

\* "INFERENCE_FAILED" stands for the codes of an unusable input and of a failing
\* provider, which are told apart nowhere below.
RunInference(w) ==
  /\ at[w] = "infer"
  /\ Answer(w, "SUCCESS", modelId[w], held[w]) \/ Fail(w, "INFERENCE_FAILED")
  /\ UNCHANGED <<initialized, registryVars, onnxFile, envVars, shutdown, conversion>>

-----------------------------------------------------------------------------
(* ListModels *)

ListModels(w) ==
  /\ at[w] = "list"
  /\ Answer(w, "SUCCESS", None, None)
  /\ UNCHANGED <<initialized, registryVars, onnxFile, envVars, shutdown, conversion>>

-----------------------------------------------------------------------------
(* Shutdown, on the main thread *)

ShutdownExecutors ==
  /\ shutdown = "running"
  /\ initialized
  /\ executors' = [i \in Ids |-> None]
  /\ shutdown' = "registry"
  /\ UNCHANGED <<initialized, models, onnxFile, envVars, at, localVars, conversion, reply>>

ShutdownRegistry ==
  /\ shutdown = "registry"
  /\ models' = [i \in Ids |-> None]
  /\ shutdown' = "flag"
  /\ UNCHANGED <<initialized, executors, onnxFile, envVars, at, localVars, conversion, reply>>

ShutdownFlag ==
  /\ shutdown = "flag"
  /\ initialized' = FALSE
  /\ shutdown' = "done"
  /\ UNCHANGED <<registryVars, onnxFile, envVars, at, localVars, conversion, reply>>

-----------------------------------------------------------------------------
(* Clients replace and delete the model files they registered. *)

Registering == {"exists", "hash", "has", "get", "convert", "converting", "publish"}

\* Also by a converter that its handler has given up, or that has survived the service.
BeingRegistered(path) ==
  \/ \E w \in Workers : at[w] \in Registering /\ request[w].path = path
  \/ \E k \in Converters : conversion[k].path = path

EditSource(path) ==
  /\ edits < MaxEdits
  /\ StableSources => ~BeingRegistered(path)
  /\ edits' = edits + 1
  /\ \E c \in Contents \cup {None} : source' = [source EXCEPT ![path] = c]
  /\ UNCHANGED <<initialized, registryVars, onnxFile, restarts, shutdown, at, localVars, conversion, reply>>

-----------------------------------------------------------------------------
(* The service ends, whatever it was doing, and is started again.          *)

\* The new process has an empty registry and Initialize finds the cache directory as it
\* was. A file that a handler was copying stays torn; converters are processes of their own,
\* in no job with the service, and go on.
Restart ==
  /\ restarts < MaxRestarts
  /\ restarts' = restarts + 1
  /\ initialized' = TRUE
  /\ shutdown' = "running"
  /\ models' = [i \in Ids |-> None]
  /\ executors' = [i \in Ids |-> None]
  /\ at' = [w \in Workers |-> "idle"]
  /\ request' = [w \in Workers |-> NoRequest]
  /\ modelId' = [w \in Workers |-> None]
  /\ held' = [w \in Workers |-> None]
  /\ job' = [w \in Workers |-> None]
  /\ conversion' = [k \in Converters |->
                      IF \/ conversion[k].path \in OnnxPaths
                         \/ conversion[k].phase \in {"done", "failed"}
                      THEN NoConversion ELSE conversion[k]]
  /\ reply' = [w \in Workers |-> NoReply]
  /\ UNCHANGED <<onnxFile, source, edits>>

-----------------------------------------------------------------------------
Register(w) ==
  \/ CheckExists(w) \/ ComputeModelId(w) \/ HasModel(w) \/ AnswerRegistered(w)
  \/ StartConversion(w) \/ FinishConversion(w) \/ ConversionFails(w) \/ ConversionTimesOut(w)
  \/ PublishModel(w)

Unregister(w) == EraseExecutor(w) \/ EraseModel(w)

Predict(w) ==
  \/ FindExecutor(w) \/ GetModel(w) \/ LoadModel(w) \/ LoadFails(w)
  \/ StoreExecutor(w) \/ RunInference(w)

Handle(w) == Register(w) \/ Unregister(w) \/ Predict(w) \/ ListModels(w)

Shutdown == ShutdownExecutors \/ ShutdownRegistry \/ ShutdownFlag

Next ==
  \/ \E w \in Workers : AcceptRequest(w) \/ RefuseRequest(w) \/ Handle(w)
  \/ \E k \in Converters : Convert(k)
  \/ Shutdown
  \/ Restart
  \/ \E path \in Paths : EditSource(path)

Spec == Init /\ [][Next]_vars

\* A file of the cache directory is in use by one request, or by one converter that was
\* given up or has survived its service, at a time.
OneUser ==
  /\ \A v, w \in Workers :
       /\ modelId[v] # None /\ modelId[w] # None
       /\ OnnxPath[modelId[v]] = OnnxPath[modelId[w]]
       => v = w
  /\ \A w \in Workers, k \in Converters :
       /\ modelId[w] # None
       /\ conversion[k].file = OnnxPath[modelId[w]]
       => job[w] = k

\* No request is being handled while Shutdown runs.
ShutdownAlone == shutdown \in {"registry", "flag"} => \A w \in Workers : at[w] = "idle"

\* A model that is copied is still the one that was checked before.
CopyUnedited ==
  \A k \in Converters :
    conversion[k].phase = "loaded" /\ conversion[k].path \in CopiedPaths
    => source[conversion[k].path] \in {None, conversion[k].read}

\* Uses of one model do not overlap. Nothing in the code sees to it: it is up to clients,
\* and to converters that end when they are told to.
Undisturbed == OneUser /\ ShutdownAlone /\ CopyUnedited

UndisturbedSpec == Init /\ [][Next /\ Undisturbed']_vars

-----------------------------------------------------------------------------
(* Properties *)

Steps == {"idle", "list", "eraseExecutor", "eraseModel", "findExecutor",
          "getModel", "load", "store", "infer"} \cup Registering

\* What each variable holds. Only complete contents reach the registry, the executor
\* cache and a handler's locals; torn files are met in the cache directory alone.
TypeOK ==
  /\ initialized \in BOOLEAN
  /\ models \in [Ids -> Contents \cup {None}]
  /\ executors \in [Ids -> Contents \cup {None}]
  /\ onnxFile \in [Files -> Contents \cup {None, Torn}]
  /\ source \in [Paths -> Contents \cup {None}]
  /\ edits \in 0..MaxEdits /\ restarts \in 0..MaxRestarts
  /\ shutdown \in {"running", "registry", "flag", "done"}
  /\ at \in [Workers -> Steps]
  /\ request \in [Workers -> Requests \cup {NoRequest}]
  /\ modelId \in [Workers -> Ids \cup {None}]
  /\ held \in [Workers -> Contents \cup {None}]
  /\ job \in [Workers -> Converters \cup {None}]
  /\ \A w \in Workers : at[w] = "converting" => job[w] # None
  /\ conversion \in [Converters -> Conversion \cup {NoConversion}]
  /\ reply \in [Workers -> Reply \cup {NoReply}]

\* A model id computed from content names that content, through every layer that
\* uses the id as a key: the file conversion wrote, the registry entry, the cached
\* session and what a client is told or served. runtime_state.cpp computes the id,
\* converts, publishes and loads in separate steps, with other handlers between, and with
\* converters of requests that have timed out or of a service that has crashed.
\* It needs KeysAreNotHashes and, for a file that changes between ComputeModelHash
\* and the converter's reads, StableSources.
ContentAddressed ==
  \A c \in Contents :
    LET id == ContentHash[c]
    IN  /\ onnxFile[OnnxPath[id]] \in {None, Torn, c}
        /\ models[id] \in {None, c}
        /\ executors[id] \in {None, c}
        /\ \A w \in Workers : reply[w].id = id => reply[w].of \in {None, c}

\* No client passes a cache_key whose file is that of the hash of a content: the hash
\* itself, or another spelling of its file's name.
KeysAreNotHashes ==
  \A r \in Requests : r.op = "register" /\ r.id # None =>
    \A c \in Contents : OnnxPath[r.id] # OnnxPath[ContentHash[c]]

\* Different ids have different files. Hashes do; two cache keys may not.
DistinctFiles == \A i, j \in Ids : OnnxPath[i] = OnnxPath[j] => i = j

\* A registered model has an .onnx file in the cache directory, whatever conversions
\* of the same id do at the same time: onnx_path of a registry entry is where
\* GetOrCreateExecutor will look.
RegisteredHasFile == \A i \in Ids : models[i] # None => onnxFile[OnnxPath[i]] # None

\* When uses of one model do not overlap, its three copies agree: the session Predict finds
\* in the cache is the registered model's, and the registered model's file is complete
\* and the one its metadata was taken from, however often an id is registered,
\* dropped and registered again with other content, and although conversions that
\* failed, timed out or outlived their service have left the file torn.
CacheCoherent ==
  \A i \in Ids :
    /\ executors[i] # None => executors[i] = models[i]
    /\ models[i] # None => onnxFile[OnnxPath[i]] = models[i]

\* "Unregister model and free resources": once no handler is running, a cached
\* session belongs to a registered model.
UnregisterFreesResources ==
  (\A w \in Workers : at[w] = "idle")
  => \A i \in Ids : executors[i] # None => models[i] # None

\* A client that registers a file without a cache key is answered for the content
\* its path has then, never for what the path held at an earlier registration: the
\* id depends on the content, where ComputeModelHash can read it. None is the empty metadata of an
\* entry that went away between HasModel and GetModel.
RegistrationIsCurrent ==
  [][\A w \in Workers :
       (/\ at[w] \in Registering /\ at'[w] = "idle"
        /\ request[w].id = None /\ request[w].path \notin Unhashable
        /\ reply'[w].code = "SUCCESS")
       => reply'[w].of \in {None, source[request[w].path]}]_vars

\* The catalog the handlers implement: what is registered, and the answers.
Catalog == INSTANCE ModelCatalog WITH
  Clients <- Workers, catalog <- models, answer <- reply

\* When uses of one model do not overlap, every request takes effect at once, as
\* ModelCatalog has it, whatever handlers of other models do meanwhile: what a handler has
\* seen of its model stays true until it answers, though no lock is held that long, and
\* the session a Predict finds is that of the registered model.
ImplementsCatalog == Catalog!Spec

=============================================================================
