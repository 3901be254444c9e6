\* Two workers and two models, of which no two uses overlap: a .onnx file that the service
\* copies, and a .ONNX file that a converter does. Model files change at any moment; the
\* service may be shut down, and the system ends.
SPECIFICATION UndisturbedSpec
CONSTANTS
  Workers = {w1, w2}
  Converters = {k1, k2}
  file = file  upper = upper  c1 = c1  c2 = c2  key = key
  Paths = {file, upper}
  Contents = {c1, c2}
  Ids <- MCIds
  ContentHash <- MCContentHash
  PathHash <- MCPathHash
  Files <- MCFiles
  OnnxPath <- MCOnnxPath
  Unhashable = {file, upper}
  OnnxPaths = {file}
  CopiedPaths = {upper}
  Requests <- OnKeyOrUpper
  None = None
  Torn = Torn
  MaxEdits = 1
  MaxRestarts = 1
  StableSources = FALSE
INVARIANT CacheCoherent
PROPERTY ImplementsCatalog
SYMMETRY WorkerContentSymmetry
CHECK_DEADLOCK FALSE
