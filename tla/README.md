# WinCoreML: models, checks and proofs

TLA+ modules about the Universal ML Runtime of this repository: a Windows
service that registers machine-learning models, converts them to ONNX in a
Python process, and runs inference for clients on a named pipe. The modules are
translated from the code under `src/`; `PROJECT.json` gives, for every
definition, the lines it stands for.

## 1. The system

| Component (under `src/`) | State | Operations | Module |
|---|---|---|---|
| RuntimeState (`runtime/service/runtime_state.cpp`) | `initialized_`, `executors_`, the cache directory | RegisterModel, UnregisterModel, Predict, ListModels, Initialize, Shutdown | RuntimeState, ModelCatalog |
| ModelRegistry (`model_registry.cpp`) | `models_` | RegisterModel, UnregisterModel, GetModel, HasModel, GetAllModels, Clear | RuntimeState |
| Converter process protocol (`RunConverterWorker`, `main` of `tools/converter_worker/worker.py`) | six pipe handles, a process, the output file | start, send the request, wait 60 s, read, check | ConverterProcess, ConversionCall |
| Converter registry and converters (`tools/converter_worker`) | the extension map; source, output and temporary files; the model in memory | get_converter, convert, extract_metadata, the four converters | Conversion, ConversionContract |
| Benchmarking (`benchmarking.py`) | results | benchmark_model, summary | Benchmark |
| NamedPipeServer (`named_pipe_server_win32.cpp`) | `running_`, completion port, `clients_`, acceptor and worker threads | Start, Stop, accept, read, respond, disconnect | PipeServer |
| Service main (`main.cpp`) | `g_running`, `g_server`, `g_runtime_state` | main, signal_handler, dispatch of messages | Service; the dispatch in RuntimeState |
| ONNXExecutor (`runtime/execution/onnx_executor.cpp`) | an ONNX Runtime session, tensors | LoadModel, RunInference | Inference; LoadModel in RuntimeState |
| Input validation (`runtime/include/security_utils.h`) | none | shapes and sizes of tensors; paths, log text, ids | Inference, the first two |
| Python SDK (`sdk/python/coreml_win`) | `_connected`, `pipe_handle` | connect, send_message, disconnect, one call per request | PipeClient |
| Configuration, logger, provider header, command-line tools, installers, k8s, docs | - | - | not modelled (section 8) |

How they interact. A client writes a length and a message into its pipe. A
worker thread of NamedPipeServer takes the completed read from the completion
port, calls `handle_message` (`main.cpp`), which calls a handler of
RuntimeState on that same thread, writes the response and starts the next read.
Handlers of different clients therefore run at the same time. They share
`registry_` and `executors_`, a mutex each, and the cache directory, which has
no lock. A registration that needs conversion starts a Python process and waits
for it, for 60 seconds; the process is in no job with the service and lives on
when it has been given up or the service has crashed. Shutdown is a signal: its
handler, on a thread of its own, clears `g_running` and stops the server; main
looks at `g_running` once a second (`main.cpp:432`), stops the server as well,
which may find that the handler's `Stop` has begun and not ended, and then clears
RuntimeState and returns.

What is hard about it:

- handlers interleave between the two maps and the files: `HasModel` and then
  `GetModel`, hash and then convert, erase here and then there, load and then
  store;
- files outlive their writers, and writers those who wait for them: a conversion
  that fails or is terminated leaves a torn file where a registered model's file
  may be, or a temporary directory that the next one finds; `TerminateProcess`
  does not wait, and nothing ends a converter when the service crashes, so one
  that nobody waits for may still write;
- file names are put together from keys that clients choose;
- handles and connections have no single owner: inherited pipe handles, bare
  pointers as completion keys, `Stop` on two threads;
- files are read again after they were checked: for the description, for every
  provider of the benchmark, for the optimizer;
- waits that nothing ends: the acceptor's, the converter's on a full pipe, a
  client's for a response;
- a byte stream in which only the order of exchanges says whose answer is whose;
- products of sizes a client chose, and minima over results that failed.

What makes each component correct:

- RuntimeState: a model id stands for one content wherever it is used as a key;
  a registered model has its file; what clients see is a catalog of models.
- ConverterProcess: every conversion returns, has closed what it opened, leaves no
  process that was not told to end, and is successful only if it wrote its output.
- Conversion: a process writes to its own output only and reports success for
  the valid ONNX form of its source; what it says of a model is about the file
  it leaves; models reach the converter of their format.
- Benchmark: no failed provider is the fastest, no speedup without a baseline.
- PipeServer: one thread at a time works on a connection and no connection is
  forgotten; after `Stop` nothing is left; `Stop` returns.
- Service: handlers have a RuntimeState as long as they run, which the code does
  not keep; they lose it in one way only.
- Inference: ONNX Runtime reads no more of a message than its bytes, and calls
  with valid inputs are not refused.
- SDK: a response is given to the call that asked for it, and every call ends.

The hazards, each with its line and the properties aimed at it, are listed in
`PROJECT.json`.

## 2. Modules

**RuntimeState** has a step for each critical section and each file access of a
handler; `at[w]` is where worker `w`'s handler stands and `request`, `modelId`,
`held` and `job` are its locals. A model's bytes are a member of `Contents`,
and so is what conversion makes of them: the `.onnx` file, the parsed metadata,
the session. `models[i] = c` thus says: the entry of id `i` is about content
`c`. `Torn` is a file that is no complete model. `ComputeModelHash` is
`ContentHash`, injective as SHA-256 is taken to be, except for `Unhashable`
paths (packages, which are directories), where it is `PathHash`. Clients may
edit and delete files (`EditSource`), the service may end at any step and be
started again (`Restart`), and `Shutdown` runs in three steps, beside the
handlers. `Init` is the service after `Initialize`; the cache directory starts
empty and keeps its files over a `Restart`.

The cache directory has files, and `OnnxPath` says which one an id has: the code
puts `cache_dir_`, the id and `.onnx` together (`runtime_state.cpp:108`), so ids
that differ in case may share one. Nothing is assumed of `OnnxPath` but that the
hashes of two contents, or of a content and a path, have different files. What
needs more says so: `DistinctFiles`, `KeysAreNotHashes`.

A conversion has a life of its own (`conversion[k]`; `job[w]` is the one that
handler `w` waits for). It reads its source (`LoadSource`), truncates the output
(`OpenOutput`), and completes it (`CloseOutput`) or not (`StopConverting`). Paths
in `OnnxPaths` (extension `.onnx`) are copied by the handler itself, in one
reading; paths in `CopiedPaths` (`.ONNX`, since the comparison in
`runtime_state.cpp:225` is case-sensitive, and other ONNX files that reach the
ONNX converter) are loaded and checked first and copied afterwards
(`onnx_converter.py:70`, `:97`), so their metadata and their file may come from two
contents; other paths are read once. A handler gives a process up after 60
seconds (`ConversionTimesOut`), which says nothing about when the process ends;
`Restart` ends the copies of the service itself and leaves processes alone. Two
conversions that write one file at a time `clash`, and then the outcome may be
`Torn`. There are as many conversions at a time as `Converters` names.

`UndisturbedSpec` is the same system in the behaviours where uses of one model do
not overlap (`Undisturbed`): a file of the cache directory has one request, or
one converter that nobody waits for, at a time (`OneUser`); no request is being
handled while Shutdown runs; and a source that is copied after it was checked has
not changed in between (`CopyUnedited`). The code sees to none of this: it is up to
clients, which may keep to models of their own and leave a key alone for a while
after a timeout, and to converters that end when they are told to. It is the
condition under which the service behaves as its clients would expect (section
3), so it is a specification of its own and no assumption of `Spec`.

**ModelCatalog** is what clients are promised: a catalog of contents by id, and
requests that each take effect at the moment of their answer. RuntimeState
instantiates it (`Catalog`) with `models` for the catalog and `reply` for the
answers.

**ConverterProcess** opens up the conversion as the service sees it: the six
handles of a conversion, which of them are inheritable, which of them each
converter process got, and the checks on its answer. `theirs[c]` is whatever was
inheritable in the service at `CreateProcess`, other conversions' handles
included. `TerminateProcess` is two actions: `Terminate` marks the process as
`doomed` and the worker returns; the process goes on as before until `Die`. So a
conversion and its process have a name (`conversion[w]`), and a worker can be at
its next conversion while the process of its last one lives. `Start` takes a name
that is over: no process, no handle.
**ConversionCall** is what RegisterModel knows of all this: between call and
return the output may change, success is returned only for a file written in
between, and after a timeout the output may go on changing until the process is
gone (`lingering`). ConverterProcess instantiates it (`Call`).

**Conversion** is the other side of it: processes that each ask the registry for
a converter (`AskConverter`, one `can_convert` per step), load, save and read
back the temporary SavedModel of a Keras file, write, validate, describe,
measure and answer. A file holds a model in one of nine formats, or is `Torn`,
or is not there. Every library call may raise (`Fails`), the service may
terminate a process at any step, a client may edit a source. `disturbed` is a
history variable: the processes whose source was edited or whose output was
shared while they ran. **ConversionContract** is what the service takes for
granted of them; Conversion instantiates it (`Contract`) with a job for every
running process and a verdict for every answer. **Benchmark**, which Conversion
extends, has the providers, the results one may yield, and the summary.

**PipeServer** has the acceptor, the workers, and `Stop` on any set of callers.
A connection is its address. `clients` and, while they hold a shared pointer,
the acceptor and `StartRead` own it; workers hold the bare address. What a read
yields is one of three outcomes: all bytes, bad ones (fewer, or a length over
`BUFFER_SIZE`; both end the connection), none. `ConnectFails` is the error path of
`ConnectNamedPipe`, which closes the instance and goes on. `HandleDisconnect` of a
connection that nobody else owns reads released memory for the handle it closes:
the handle is closed or is not (`leaked`). A released address is handed out again
at any time; with `Reuse` FALSE only not while a worker that has released it in
`SendResponse` still goes on with it. `Stop` tests `running_` and clears it in two
steps, so two callers may both get past the test and join the same `std::thread`s,
which is undefined: they both get through, or the later one throws
(`StopThrows`).

**Service** extends PipeServer with main and the signal handler, which both call
its `Stop`, and with the pointer that handlers use. main goes on when it sees
`g_running` cleared, whatever the handler has come to. Its return destroys the
server: if some Stop has joined the threads the process exits, if none has the
destructors of the joinable `std::thread`s call `std::terminate` (`aborted`), as an
exception out of a second join does. Either end of the process ends all threads.

**Inference** is one call of `RunInference`: the test for a loaded model, then for each input of the model the
checks of `ValidateTensorShape`, one dimension a step, and of
`ValidateTensorDataSize`, then the tensor, then the session. `Times` is the
product of two `size_t`. `exact`, a history variable, is what the product is
without a width.

**PipeClient** is the SDK: threads that share a `RuntimeClient`, the connections
it has had, and per connection what the service (`requests`) and the client
(`stream`) have not read. The service's side is that of PipeServer for one
connection, reduced to what a client sees: it refuses an oversized request by
closing, answers requests in order, may close at any time. Responses are a
length and a body; a client that stopped between the two reads the body as
something else (`MisreadLength`, `MisreadRest`, `MisreadBody`). `cut` records
that this has come about on the present connection.

The `MC` modules give constants their values. The `_proofs` modules hold the
theorems. Operators commented "Mutated form" are plausible mistakes in the code
next to them; `PROJECT.json` says which property each would break.

How the modules fit together: Service contains PipeServer, and run `twice` shows
that a handler may be at work after main has dropped RuntimeState; RuntimeState
therefore has `Shutdown` beside its handlers. PipeClient's server side is
PipeServer's `OneToken` seen from a client. RuntimeState's conversions are those of
a ConversionCall, which ConverterProcess implements, with the processes that were
given up among them. What a converter of ConverterProcess may do is the contract
that Conversion implements.

## 3. Runs

| Run | Shows | Bounds |
|---|---|---|
| `concurrent` | TypeOK, ContentAddressed, RegisteredHasFile, RegistrationIsCurrent | 2 workers, 2 conversions, 1 file, 2 contents, 1 edit, 1 restart |
| `exclusive` | CacheCoherent, ImplementsCatalog | `UndisturbedSpec`; 2 workers, 2 conversions; a `.onnx` file under a cache key and a `.ONNX` file whose id is its path's hash, as without CryptoAPI; 2 contents, 1 edit, 1 restart |
| `orphan` | violation of UnregisterFreesResources | 2 workers, 1 file |
| `stop` | TypeOK, OneToken, StopDisconnectsAll, StateLostOnlyBehindStop, WindsDown, StopEnds | 2 workers, 2 connections, 2 pipe instances, 2 connects |
| `hang` | violation of StopReturns | PipeServer alone, the same, 1 connect and one caller of Stop |
| `twice` | violation of HandlersHaveState | the service, 1 connect |
| `release` | violation of InstancesClosed | 1 connect |
| `convert` | TypeOK, AnswerDescribesOutput, BenchmarkSound, ImplementsContract, RoutedByFormat | 2 processes, 6 sources, 2 outputs, 6 requests, 1 edit, 2 providers, latencies 0 to 2 |
| `shapes` | TypeOK, TensorsExact, RefusesExactly | `size_t` 0..31, at most 6 elements, 12 bytes, 3 dimensions; up to 4 dimensions given, 2 inputs |
| `converters` | TypeOK, SuccessIsFresh, NothingLeft, DrainEnds, RequestEnds, HoldersShrink, ImplementsCall, ConversionReturns | 2 workers, 2 conversions with a process at a time |
| `inherit` | violation of EndOfRequestSignalled | 2 conversions |
| `alone` | TypeOK, AnswerIsOwn, NeverBothWait, CallsEnd | 1 thread, 3 calls, 2 connections |

Why the bounds are enough to meet the cases:

- two workers give every order of two handlers, and both contents can pass
  through one path and one id; one edit separates "before" from "after"; a restart
  can fall on every step; two conversions at a time allow one that was given up,
  or has survived a crash, beside one that is waited for, on one file. The paths of
  the two runs cover the three ways to convert: read once, copied by the service,
  checked and then copied;
- with two workers and two conversions, one worker can be between `CreatePipe`
  and `CreateProcess` while the other is anywhere, and can start its next
  conversion while the terminated process of its last one still holds handles.
  A converter may write enough to fill a pipe at any moment (`Block`);
- two connections on two pipe instances reach the limit of instances, and two
  workers let packets of one connection meet; a signal can fall on every step;
- two conversions meet at every step of both, with one output or with two; the
  second may also start after the first has ended or been terminated, and so
  find what it left. The sources are of every format, in files whose names say
  so, say nothing or say something else. Latencies 0 to 2 give results that tie,
  that differ and that the clock does not see;
- a `size_t` of five bits is larger than twice the limits, as the real one is,
  and small enough for products of two dimensions in range to wrap around, to
  values below the limits too; dimensions below, at and above each limit are
  among those given;
- three calls are enough for one that leaves a response unread, one that meets
  what is left and one that meets what that left; two connections for a
  reconnection.

Counters that would grow for ever (`edits`, `restarts`, `connects`, `starts`)
stop at `MaxEdits`, `MaxRestarts`, `MaxConnects`, `MaxStarts` and `MaxCalls`,
and `Converters` and `Conversions` bound the conversions whose process is alive;
nothing else is cut off. The largest runs are `concurrent` with 4.4 million
distinct states (about two minutes), `exclusive` with 960 thousand, `convert`
with 566 thousand and `stop` with 512 thousand. `exclusive` takes workers and
contents as symmetric, which is sound as its requests name no content, no
definition tells either apart and it checks no liveness; `concurrent` takes
workers so.

Deadlock is checked except where the system does end: in `exclusive` and `orphan`
after Shutdown or with every request barred by `Undisturbed`, with the process in
the runs of Service, with the threads in `hang`, after the last start in `convert`,
after the answer in `shapes` and after the last call in `alone`. In `concurrent`
a worker can always be asked for something, so it is checked there, as it is in
`converters`.

### Properties that hold

- *ContentAddressed.* An id that is the hash of a content stands for it in the
  cache directory, in the registry, in the executor cache and in every answer,
  with any interleaving, and with converters of earlier requests or of a crashed
  service still at work. Needed: files are left alone while they are being
  registered, or converted by such a converter (`StableSources`), and no client
  uses a cache key whose file is that of a hash (`KeysAreNotHashes`).
- *RegisteredHasFile.* A registered model has a file, though conversions of the
  same id overlap and fail. The file may be torn where they do.
- *RegistrationIsCurrent.* A registration without a cache key answers for what
  the path holds, not for what it held before. An entry that goes away between
  `HasModel` and `GetModel` makes the answer empty, never wrong. It needs paths
  that can be hashed: the id of a package depends on its path only, so a package
  that has changed is answered as it was until it is unregistered.
- *CacheCoherent*, *ImplementsCatalog.* Of `UndisturbedSpec`: the three copies of a
  model agree and clients see an atomic catalog, over edits, failed conversions,
  timeouts, re-registrations, restarts and whatever handlers do to other models at
  the same time. Needed: ids have files of their own (`DistinctFiles`). Without
  `Undisturbed` neither holds: `orphan` shows one reason. Others are two handlers
  converting one model; a converter of the last service, or of a request that has
  timed out, which writes after the next registration has published; and a `.ONNX`
  file replaced between its check and its copy.
- *OneToken.* At most one thread, packet or pending read is concerned with a
  connection, and until Stop a connection in the list has one. Needed: the heap
  does not hand out the address of a connection while the worker that has released
  it in `SendResponse` still goes on with it (`Reuse` FALSE); addresses released
  before that may be used again at once. With `Reuse` it fails: the worker goes on
  to `FindClient` with the bare address, which may by then be that of a new
  connection.
- *StopDisconnectsAll.* A `Stop` that has found the server running, and has
  returned, leaves no client, no read and no thread, whatever another `Stop` does
  beside it, and whatever the heap does. A `Stop` that has found it not running
  promises nothing, which is what goes wrong in `twice`.
- *StateLostOnlyBehindStop.* What goes wrong there goes wrong in one way only: a
  handler has lost its RuntimeState only if main's `Stop` has found the handler's
  before it, and that one is still closing the port or joining. With one `Stop`, or
  with a main that waited for the other, handlers would have it.
- *WindsDown.* Once Stop has cleared `running_`, every step of a thread of the
  server brings that thread nearer to its end, whatever packets are on the port,
  and no other step takes it back: Stop waits for a bounded number of steps. What
  is missing for `StopReturns` is that each of them is taken, which is where the
  acceptor's wait for a client comes in.
- *StopEnds*, with clients that go on connecting: a `Stop` that has begun returns,
  from the middle of any request and at the limit of instances, or the process has
  ended under it. With clients that do not come it may hang, as `hang` shows.
- *SuccessIsFresh*, *NothingLeft*, *ConversionReturns*: see section 1. At a return
  the process has ended or been told to, which is all that the code sees to.
- *DrainEnds*, *RequestEnds*, *HoldersShrink.* Reading the output has no timeout of
  its own, and waits for every process that inherited the write end. It ends
  because the service itself holds no write end by then, each holder is the process
  of another conversion that was terminated or is itself waited for with a timeout,
  and no new holder comes up. The same holds of the converter that waits for the end
  of its request, as far as the holders go.
- *ImplementsCall.* A conversion is a ConversionCall: the file at an output path
  changes only during the call, or until the process of a timed-out one is gone;
  success is for a file written in it.
- *ImplementsContract.* Converter processes keep to their outputs and report
  success for nothing but the valid ONNX form of their source, unless the source
  is edited, the output shared, or the model optimized, as the service never
  asks. It rests on the name of the temporary directory, which is derived from
  the output's.
- *AnswerDescribesOutput.* Although the file is read again for the description
  and for every provider, all that an answer says is about one file.
- *RoutedByFormat.* A model reaches the converter of its format, from a path with
  any name, and is refused only when no converter accepts it.
- *BenchmarkSound.* The fastest provider has run the model, and a speedup is one
  over a measured CPU.
- *TensorsExact.* Neither product wraps around: the elements and bytes ONNX
  Runtime is given are those of the dimensions as integers.
- *RefusesExactly.* The step-by-step checks refuse what a plain definition over
  the integers calls invalid, at the first such input, and nothing else.
- *NeverBothWait.* While a call waits in `ReadFile`, there is something in the pipe
  for it, or a request for the service, or the pipe has been closed.
- *AnswerIsOwn*, *NeverBothWait*, *CallsEnd*, for a client of one thread, until
  a response of its connection was left unread (one of more than 10 MB, or an
  interrupt): errors, refused requests, broken pipes and reconnections do not
  shift answers from one call to another, and no call waits for ever. A program
  that catches `IPCFailedError` has to call `disconnect()` before it goes on,
  and threads need clients of their own: with two threads on one client
  `AnswerIsOwn` fails.

### Disagreements found

Five statements of the documentation or comments that the code does not keep,
each the one property of a violation run: an orphaned session after Unregister
(`orphan`), a `Stop` that waits for the next client (`hang`), a second `Stop`
that returns early, after which main drops what a handler uses (`twice`), a pipe
handle read from a released connection (`release`), and a request whose end is
not signalled because another converter inherited the pipe (`inherit`).
`PROJECT.json` has the quotations.

Seen on the way, without a run of its own: `parse_response`
(`proto_utils.py:186`) calls `from_error_code` without its `message` argument
and would call the instance it returned, so that every error status of the
service reaches the program as a `TypeError`. In the model it is one of the
ways to raise. And a service that is stopped by Ctrl+C while a handler converts
does not exit but abort: main returns before the handler's `Stop` has joined the
threads, and their `std::thread`s are destroyed joinable (`MainReturn`).

## 4. Fairness

- `ConverterProcess!FairSpec`: the service's threads and its clock run, so a
  wait for a converter ends, and the system gets to ending a process that it was
  told to end. Nothing is assumed of converters.
- `PipeServer!FairSpec`: the acceptor, the workers and a Stop that has begun go on.
  For the workers this includes that clients read their responses, since
  `WriteFile` waits for them. It does not say that clients come, and run `hang`
  rests on that.
- `Service!BusyServiceSpec`: the same inside the service, as long as the process
  lives, and that clients keep connecting; `StopEnds` needs it. Whether main goes on
  after its Stop is left open, so the property covers a main that ends the process
  and one that has not got to it. Nothing makes a user press Ctrl+C.
- `PipeClient!FairSpec`: a call that has begun goes on, and a worker takes what
  an open connection holds, which is PipeServer's fairness seen from a client. The
  hanging `Stop` of run `hang` is left out here: with its workers gone and its
  connections open, calls would wait as long as it does.

RuntimeState, Conversion and Inference state no fairness, as no property of theirs
asks for progress: a converter may hang, which is what the service's 60 seconds are
for.

## 5. Proofs

Theorems for every value of the constants, under the named assumptions of the
modules (constants are distinct, the hash is injective and differs from path
hashes, requests are well formed, sizes are positive numbers).

`RuntimeState_proofs` and `RuntimeStateUndisturbed_proofs`, for all workers,
paths, contents, ids, files, conversions and requests:

- `TypeCorrect`. `TypeOK` is not inductive: a step that uses `modelId[w]` as a
  key needs it to be an id, and one that takes over a conversion's content needs it
  to have one. `LocalsOK` says at which steps a handler has its id and a content,
  `JobsOK` that a handler waits for a conversion of its own path and file that
  nobody else waits for, `ConversionOK` at which phases a conversion has read and
  has bytes to write; `Typed` is all of them, and inductive.
- `RegisteredModelsHaveFiles`. Inductive with `PublishesFile` and
  `ConvertedHasFile`: a handler about to publish, and a conversion that is done,
  have their file, and nothing deletes files.
- `IdsAddressContent`, assuming `StableSources` and `KeysAreNotHashes`. With
  `HandlersAddressed`: while a handler registers under an id whose file is that of
  the hash of `c`, its path holds `c` and so do its locals; and
  `ConversionsAddressed`: the same of every conversion to that file, waited for or
  not. `IdOfContent` uses that the hash is injective.
- `RegistrationsAreCurrent`, an action property, under the same assumptions: from
  `ContentInv` and `KeylessInv` by a case for each step that can answer. The
  paths that cannot be hashed are an exception in the property itself, so that
  packages may be registered beside the files it speaks of.
- `UndisturbedCoherence`, of `UndisturbedSpec` and assuming `DistinctFiles`.
  `HandlerCoherent` says what a handler's lookups have established (the model is
  missing, registered with this content, not cached) and only a use of the same
  model could undo; `ConversionCoherent` says that a conversion is the only one of
  its file, which is no registered model's, and writes what it has read. Together
  with `CacheCoherent` they are inductive where `Undisturbed` holds. Coherence is
  not taken from the condition: `Undisturbed` speaks of who is at work on what, and
  says nothing of what registry, cache and directory hold.
- `UndisturbedRefinement`: on the same conditions
  `UndisturbedSpec => Catalog!Spec`, for any number of handlers. The answering step
  of a handler is the abstract request, `Restart` is `Catalog!Restart`, the other
  steps, those of conversions among them, stutter.

`ConverterProcess_proofs`, for any number of workers and conversions:

- `TypeCorrect`, `SuccessesAreFresh`, `ReturnsLeaveNothing`, `DrainsEnd`,
  `RequestsEnd`. The inductive invariant says, step by step of RunConverterWorker,
  which of the six handles are open and which inheritable (`HandlesOK`), that a
  process runs only while its own conversion has it or after it was told to end, and
  that one that is waited for was not (`ProcessOK`), that only a process that runs
  has handles, and never the write end of its own stdin (`ProcessHandlesOK`), that
  one that says it succeeded has written its output (`SaysOK`), that this is so of a
  successful result until the worker's next conversion (`ResultOK`), and that no two
  workers have one conversion (`OwnConversion`). The ten error returns are cases of
  it.
- `HoldersOnlyLeave`, an action property: a new process gets what is inheritable
  in the service, and by `HandlesOK` the ends of a conversion that has closed
  them are not among it.
- `ConversionsAreCalls`: `Spec => Call!Spec`. A step of a converter is a `Write` of
  a call that is open or `lingering`, because by `ProcessOK` no other process is
  alive; the timeout is `TimeOut`, `Die` is `Gone`, and the successful return is
  `Succeed` because of `SaysOK`.

`Conversion_proofs`, for any number of processes, requests, models and outcomes:

- `TypeCorrect`. Inductive with `Loaded`: a process that has loaded a model keeps
  it until it has described it.
- `AnswersDescribeOutput`. `Knows(w)` is what a process that nobody disturbs
  knows at each step: that its model is that of its source, its temporary
  directory that of its model, its output what it wrote, its results and its
  answer of that output. `Apart` says that two processes with one output are
  disturbed. A step of one process takes nothing from what the others know
  (`OthersKnow`), because it keeps to its own output and directory.
- `ConversionsKeepContract`: `Spec => Contract!Spec`, from the same invariant.
  `Start` is `Begin`, opening and writing an output is `Write`, an answer is
  `Succeed` or `Fail`, a termination is `Fail`, an edit is `Edit`, and the other
  steps stutter. That `Succeed` is enabled is where `Knows` is needed.
- `SummariesAreSound`, for any list of results, from the types of an answer and
  the lemma `SummarySound`. `FastestIsLeast` says that the minimum the summary
  takes over the successful results is there and is least, ties included,
  `BaselineIsMeasured` that a baseline is the mean of a CPU result that succeeded.
- `SourcesAreRoutedByFormat`, an action property, assuming `NamesTell`: `.h5`,
  `.keras` and `.mlmodel` files hold what such files are for. `can_convert` of the
  TensorFlow converter looks no further than the suffix
  (`tensorflow_converter.py:47`), nor does that of CoreML
  (`coreml_converter.py:40`), so a file of another format under such a name does
  go to the wrong converter. `MCConversion` assumes it of the sources of the run,
  among which are files and directories with other misleading names. The proof
  rests on `Routed`: a process still has to ask every converter that would accept
  its source, TensorFlow first for a SavedModel, and `WhoConverts`: those are the
  converter of the format and, for a SavedModel, CoreML.

`PipeServer_proofs`, for any number of workers, connections and callers of Stop:

- `TypeCorrect`.
- `TokensAreUnique`, assuming `~Reuse`: the heap does not hand out an address that a
  worker still goes on with. `Unique` and `Present` are the two halves of `OneToken`
  over the variables; they are inductive with `Backed` (while the
  server runs, reads and packets are those of connections in the list, so what the
  heap may hand out is with a worker at most), `Listed` (a connection in the list is active, so a
  worker that finds its connection inactive may drop it) and `StopOrder` (the port
  is open while the server runs).
- `StopsWindDown`: an action property, by a case for each action, from `TypeOK`.
- `StopsDisconnectAll`, without any assumption. `Joined` says which threads a Stop
  has waited for when it is where it is, and that a thread that has ended does
  nothing more.

`Service_proofs`:

- `ServiceRunsServer`: `ServiceSpec => Spec`, so that the theorems above hold in
  the service (`ServiceTypes`, `ServiceTokens`, `ServiceWindsDown`,
  `ServiceStopsDisconnectAll`).
- `StatesAreLostBehindStop`. `Joined` again, with `Dropped` (main drops the
  RuntimeState after its own Stop) and `Blame` (if the server is not running some
  Stop has cleared the flag and gone on; and if the handler's threw, main's was
  beside it).

`Inference_proofs`, for all widths, limits, names and calls:

- `TypeCorrect` and `TensorsAreExact`. `TimesExact`: the test `n <= SizeMax \div d`
  before a multiplication makes the product of two `size_t` the one of the
  integers. `Counted` carries that along the dimensions of a shape.
- `RefusesExactlyInvalid`, for shapes of any length. The reference definition
  multiplies all dimensions, the code stops at the first that does not fit: that
  it refuses nothing valid needs that no partial product exceeds the whole one.
  That is an induction, which the proof makes from the least counterexample (the
  natural numbers are well-founded under `<`). `Passed` says that the inputs
  already turned into tensors are valid. The limits are taken to be values of
  `size_t`, as the `constexpr`s of `security_utils.h:25` are.

`PipeClient_proofs`, for any number of calls and connections:

- `TypeCorrect`, for any number of threads.
- `AnswersAreOwn`, for one thread. `Exchange` says what may be in the pipe at
  each step of a call on a connection in step, and `Unopened` that a new
  connection is empty; together with `TypeOK` they are inductive. From them a
  read finds the part of the response that it is for.
- `NoMutualWait`, for one thread, from the same invariant: at each step that
  reads, `Exchange` leaves the request unserved, the answer unread or the
  connection closed.

The runs check the same properties on small instances. Model-checked only is
liveness (`StopEnds`, `ConversionReturns`, `CallsEnd`), which the prover does not
reach. For each of these the safety property they rest on is proved instead: `WindsDown` for
Stop, `DrainEnds` with `HoldersShrink` for conversions, `NeverBothWait` for calls.
`InstancesClosed`, of run `release`, holds under no condition worth stating.

## 6. Abstractions to know about

- Exceptions that `handle_message` turns into an internal error, health checks
  and messages that do not parse change no state and are left out.
- The text of requests and responses is not modelled: not the JSON of the
  converter, which is neither escaped when written nor parsed when read, not
  the text of the benchmark report, not names, and not the wording of errors.
- A crash ends the service's threads at any step. Its converters go on. What they
  do is the same with and without a service to wait for them, except that the pipes
  they write to are closed, which is one of the ways to fail (`StopConverting`).
- A client replaces a model file in one step. A file that is read while its owner
  is writing it is not modelled.
- Two conversions may have one output file open for writing at a time. Windows may
  refuse the second one, which then fails; the model has both.
- Of the service's last moments the model leaves out the instant between a handler's
  test of `g_server` and its call of `Stop`, in which main may clear the pointer and
  destroy the object, and the use of members of a server that is being destroyed.
  A second SIGINT, which ends the process at once because Windows resets the handler,
  is left out as well.
- Of the data races on `initialized_` and `running_` the model has the
  sequentially consistent outcomes.
- A `ReadFile` of the SDK gets a whole length or body, as the service writes a
  response with one `WriteFile`.
- A request to a converter fits into its pipe, as paths do.
- In Conversion a file changes in one step, except for the outputs and temporary
  directories that the processes write, which are `Torn` in between. What torch,
  tensorflow, coremltools and onnx make of a model is its ONNX form, valid or
  not, or an exception; that a model with the same meaning comes out is not in
  question. Fallbacks within a converter (a second way to export) are the same
  step. What the optimizer writes is not validated, and may be anything with the
  model's name.
- A mean latency is a natural number; the standard deviation, throughput and
  memory of a result are left out.
- In Inference `sizeof(float)` is used for every tensor, as in the code. The limits
  are those of a small `size_t` in the run and arbitrary in the proofs. Outputs
  are copied from what ONNX Runtime returns and are not modelled. The build
  without ONNX Runtime, whose `RunInference` is a placeholder, is left out.

## 7. Running

`tlc -config RuntimeState_concurrent.cfg MCRuntimeState`, and so on with the
module and configuration that `PROJECT.json` names for each run; `tlapm
RuntimeState_proofs.tla` for the proofs.

## 8. Not modelled

Configuration is read once and none of its values reaches the modelled
components (`timeout_seconds` in particular does not: the converter's 60 seconds
are a literal). The logger only writes. The provider interface and the native
SDK are headers with no implementation here. `coremlwin_cli.py` makes one SDK
call for each command and prints the result; its monitor calls again every few
seconds on one client, and as `connect` is not called again it goes on failing
when the service is restarted (PipeClient: calls on a broken connection raise).
`enhanced_cli.py` imports a module that is not in the repository. The classes of
`errors.py` are told apart by no property. The validation of paths, ids and log
texts is about characters. PyTorch, TensorFlow, coremltools and ONNX Runtime
are called and not part of the repository. Installers, manifests and documents
have no run-time behaviour.
