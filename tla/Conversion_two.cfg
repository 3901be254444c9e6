\* Starts are bounded: there is a last answer.
CONSTANTS
  Workers = {w1, w2}
  Paths = {"keras", "h5", "dir", "pt", "onnx", "mlpackage"}
  Suffix <- MCSuffix
  MayHold <- MCMayHold
  Models = {"a", "b"}
  Sources <- MCSources
  Outputs = {"x", "y"}
  Requests <- MCRequests
  None = None
  Torn = Torn
  Edits <- MCEdits
  MaxStarts = 2
  MaxEdits = 1
  Available = {"Dml", "CPU"}
  MaxLatency = 2
  NoProvider = NoProvider
SYMMETRY Symmetry
SPECIFICATION Spec
INVARIANTS
  TypeOK
  AnswerDescribesOutput
  BenchmarkSound
PROPERTIES
  ImplementsContract
  RoutedByFormat
CHECK_DEADLOCK FALSE
