----------------------------- MODULE MCService -----------------------------
(* Small instances of Service and of the PipeServer in it.                 *)
EXTENDS Service

CONSTANTS w1, w2, c1, c2

MCWorkers == {w1, w2}
MCConns == {c1, c2}

\* main's Stop, and the one signal_handler calls on its own thread.
MCCallers == {"main", "signal"}
=============================================================================
