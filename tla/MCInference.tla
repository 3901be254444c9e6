---------------------------- MODULE MCInference ----------------------------
(* Shapes and sizes around the limits of a small size_t.                   *)
EXTENDS Inference

\* Up to two dimensions of any kind, and three or four of some.
MCShapes ==
  LET any == {-1, 0, 1, 2, 3, 6, 7, 11, 31}
      some == {1, 2, 11}
  IN {<<>>, <<1, 1, 1, 1>>, <<2, 3, 0>>}
     \cup {<<d>> : d \in any} \cup {<<d, e>> : d, e \in any}
     \cup {<<d, e, f>> : d, e, f \in some}

MCTensors == [shape : MCShapes, bytes : {0, 2, 4, 6, 12, 14}]

\* The second input is one of few, or missing.
MCCalls ==
  {[a |-> s, b |-> t] : s \in MCTensors,
     t \in {[shape |-> <<1, 2>>, bytes |-> 4], [shape |-> <<3>>, bytes |-> 5]}}
  \cup {[a |-> t] : t \in MCTensors}
  \cup {[b |-> [shape |-> <<1>>, bytes |-> 2]]}

MCInputNames == <<"a", "b">>
=============================================================================
