---------------------------- MODULE MCConversion ----------------------------
(* Two converter processes and requests of each kind.                      *)
EXTENDS Conversion, TLC

Symmetry == Permutations(Workers)

\* Two Keras models with outputs of their own, the first output for a PyTorch model
\* too; a directory, and packages that may be another thing.
MCSuffix ==
  [keras |-> ".keras", h5 |-> ".h5", dir |-> "", pt |-> ".pt", onnx |-> ".onnx",
   mlpackage |-> ".mlpackage"]

MCMayHold ==
  [keras |-> {"keras"}, h5 |-> {"keras"}, dir |-> {"savedModel", "textSavedModel"},
   pt |-> {"script", "module", "tensors"}, onnx |-> {"onnx", "invalid"},
   mlpackage |-> {"package", "savedModel"}]

Holding(keras, h5, dir, pt, onnx, mlpackage) ==
  [keras |-> [model |-> "a", format |-> keras], h5 |-> [model |-> "b", format |-> h5],
   dir |-> [model |-> "a", format |-> dir], pt |-> [model |-> "b", format |-> pt],
   onnx |-> [model |-> "a", format |-> onnx],
   mlpackage |-> [model |-> "b", format |-> mlpackage]]

MCSources == {
  Holding("keras", "keras", "textSavedModel", "script", "onnx", "package"),
  Holding("keras", "keras", "savedModel", "module", "invalid", "savedModel"),
  Holding("keras", "keras", "textSavedModel", "tensors", "onnx", "package")}

Ask(command, path, to, shapes, optimize, benchmark, iterations) ==
  [command |-> command, path |-> path, output |-> to, shapes |-> shapes,
   optimize |-> optimize, benchmark |-> benchmark, iterations |-> iterations]

MCRequests == {
  Ask("convert", "keras", "x", FALSE, FALSE, TRUE, 1),
  Ask("convert", "h5", "y", FALSE, FALSE, FALSE, 1),
  Ask("convert", "dir", "y", FALSE, FALSE, TRUE, 0),
  Ask("convert", "pt", "x", TRUE, FALSE, FALSE, 1),
  Ask("convert", "onnx", "y", FALSE, TRUE, FALSE, 1),
  Ask("metadata", "mlpackage", "x", FALSE, FALSE, FALSE, 1)}

MCEdits == {
  <<"keras", [model |-> "b", format |-> "keras"]>>,
  <<"pt", [model |-> "a", format |-> "tensors"]>>,
  <<"onnx", [model |-> "b", format |-> "onnx"]>>,
  <<"dir", None>>}

\* RoutedByFormat relies on it.
ASSUME MCNamesTell == NamesTell

=============================================================================
