\* A worker disconnects a client whose last owner was the list.
SPECIFICATION ServiceSpec
CONSTANTS
  w1 = w1
  w2 = w2
  c1 = c1
  c2 = c2
  None = None
  Workers <- MCWorkers
  Callers <- MCCallers
  Conns <- MCConns
  MaxClients = 2
  MaxConnects = 1
  Reuse = FALSE
INVARIANT InstancesClosed
CHECK_DEADLOCK FALSE
