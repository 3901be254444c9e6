\* One conversion starts its process while another one has made its pipes.
SPECIFICATION Spec
CONSTANTS
  Workers = {w1, w2}
  Conversions = {c1, c2}
  None = None
INVARIANT EndOfRequestSignalled
