\* A Predict that is loading its session while another worker unregisters the model.
SPECIFICATION Spec
CONSTANTS
  Workers = {w1, w2}
  Converters = {k1, k2}
  file = file  upper = upper  c1 = c1  c2 = c2  key = key
  Paths = {file}
  Contents = {c1, c2}
  Ids <- MCIds
  ContentHash <- MCContentHash
  PathHash <- MCPathHash
  Files <- MCFiles
  OnnxPath <- MCOnnxPath
  Unhashable = {}
  OnnxPaths = {file}
  CopiedPaths = {}
  Requests <- OnFile
  None = None
  Torn = Torn
  MaxEdits = 0
  MaxRestarts = 0
  StableSources = TRUE
INVARIANT UnregisterFreesResources
CHECK_DEADLOCK FALSE
