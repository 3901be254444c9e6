\* One Stop, and clients that need not come: the acceptor may wait for one forever.
SPECIFICATION FairSpec
CONSTANTS
  Workers = {w1, w2}
  Callers = {main}
  Conns = {c1, c2}
  MaxClients = 2
  MaxConnects = 1
  Reuse = FALSE
  None = None
PROPERTY StopReturns
CHECK_DEADLOCK FALSE
