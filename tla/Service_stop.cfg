\* Clients keep connecting; main and the signal handler stop the service, in any order.
\* It ends.
SPECIFICATION BusyServiceSpec
CONSTANTS
  w1 = w1
  w2 = w2
  c1 = c1
  c2 = c2
  None = None
  Workers <- MCWorkers
  Callers <- MCCallers
  Conns <- MCConns
  MaxClients = 2
  MaxConnects = 2
  Reuse = FALSE
INVARIANTS TypeOK OneToken StopDisconnectsAll StateLostOnlyBehindStop
PROPERTIES WindsDown StopEnds
CHECK_DEADLOCK FALSE
