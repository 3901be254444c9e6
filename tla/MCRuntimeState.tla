--------------------------- MODULE MCRuntimeState ---------------------------
(***************************************************************************)
(* Instances of RuntimeState for TLC: two contents, a file whose hash is   *)
(* its id or that is registered with a cache key, and a .ONNX file whose   *)
(* id is the hash of its path.                                             *)
(***************************************************************************)
EXTENDS RuntimeState, TLC

CONSTANTS file, upper, c1, c2, key

MCIds == {key} \cup {[hash |-> c] : c \in Contents} \cup {[path |-> p] : p \in Paths}
MCContentHash == [c \in Contents |-> [hash |-> c]]
MCPathHash == [p \in Paths |-> [path |-> p]]

\* A file for every id.
MCFiles == {[of |-> i] : i \in MCIds}
MCOnnxPath == [i \in MCIds |-> [of |-> i]]

RegisterRequest(path, id) == [op |-> "register", path |-> path, id |-> id]
OnId(op, id) == [op |-> op, path |-> None, id |-> id]

OnFile == {RegisterRequest(file, None)}
  \cup {OnId(op, [hash |-> c1]) : op \in {"unregister", "predict"}} \cup {OnId("list", None)}

OnKey == {RegisterRequest(file, key), OnId("unregister", key), OnId("predict", key)}

OnUpper == {RegisterRequest(upper, None)}
  \cup {OnId(op, [path |-> upper]) : op \in {"unregister", "predict"}}

\* Two models, neither with the hash of its content for an id.
OnKeyOrUpper == OnKey \cup OnUpper \cup {OnId("list", None)}

WorkerSymmetry == Permutations(Workers)

\* For requests that name no content.
WorkerContentSymmetry == Permutations(Workers) \cup Permutations(Contents)

=============================================================================
