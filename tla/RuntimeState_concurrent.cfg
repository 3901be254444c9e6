\* Two workers, any client request about one file, which Python converts; converters are
\* given up or survive a crash; the service may be shut down under the handlers.
SPECIFICATION Spec
CONSTANTS
  Workers = {w1, w2}
  Converters = {k1, k2}
  file = file  upper = upper  c1 = c1  c2 = c2  key = key
  Paths = {file}
  Contents = {c1, c2}
  Ids <- MCIds
  ContentHash <- MCContentHash
  PathHash <- MCPathHash
  Files <- MCFiles
  OnnxPath <- MCOnnxPath
  Unhashable = {}
  OnnxPaths = {}
  CopiedPaths = {}
  Requests <- OnFile
  None = None
  Torn = Torn
  MaxEdits = 1
  MaxRestarts = 1
  StableSources = TRUE
INVARIANTS TypeOK ContentAddressed RegisteredHasFile
PROPERTY RegistrationIsCurrent
SYMMETRY WorkerSymmetry
