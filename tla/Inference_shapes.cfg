\* One call: a reply is the end.
CONSTANTS
  InputNames <- MCInputNames
  Calls <- MCCalls
  SizeMax = 31
  MaxElements = 6
  MaxBytes = 12
  MaxDims = 3
  DtypeSize = 2
SPECIFICATION Spec
INVARIANTS
  TypeOK
  TensorsExact
  RefusesExactly
CHECK_DEADLOCK FALSE
