----------------------------- MODULE Inference -----------------------------
(***************************************************************************)
(* ONNXExecutor::RunInference (runtime/execution/onnx_executor.cpp) with   *)
(* the checks of its inputs, ValidateTensorShape and ValidateTensorDataSize *)
(* (runtime/include/security_utils.h): how many elements, and how many      *)
(* bytes of a client's message, ONNX Runtime is told to read.               *)
(*                                                                         *)
(* size_t has the values 0..SizeMax and its products are taken modulo       *)
(* SizeMax + 1; a dimension is a signed number that is no larger.           *)
(***************************************************************************)
EXTENDS Integers, Sequences

CONSTANTS
  InputNames,    \* input_names of the model, in order
  Calls,         \* what RunInference is called with: tensors by name
  SizeMax,       \* SIZE_MAX
  MaxElements,   \* MAX_TENSOR_ELEMENTS
  MaxBytes,      \* MAX_TENSOR_SIZE_BYTES
  MaxDims,       \* MAX_SHAPE_DIMENSIONS
  DtypeSize      \* sizeof(float), whatever the tensor's dtype

ASSUME InferenceAssumption ==
  /\ InputNames \in Seq(STRING)
  /\ {SizeMax, MaxDims, DtypeSize} \subseteq Nat \ {0}
  /\ {MaxElements, MaxBytes} \subseteq 1..SizeMax
  /\ \A c \in Calls : \A n \in DOMAIN c : c[n] \in [shape : Seq(Int), bytes : 0..SizeMax]
  /\ \A c \in Calls : \A n \in DOMAIN c : \A i \in DOMAIN c[n].shape : c[n].shape[i] <= SizeMax

VARIABLES
  loaded,        \* impl_->loaded
  inputs,        \* the tensors of the call
  at,            \* the next step, or "returned"
  input,         \* index in InputNames
  dim,           \* index in the shape of the tensor
  num_elements,
  exact,         \* history: the product of the dimensions up to dim, as an integer
  tensors,       \* input_tensors, each with the size of its buffer and exact
  code           \* what is returned

vars == <<loaded, inputs, at, input, dim, num_elements, exact, tensors, code>>

Init ==
  /\ loaded \in BOOLEAN /\ inputs \in Calls /\ at = "loaded" /\ code = "none"
  /\ input = 1 /\ dim = 1 /\ num_elements = 1 /\ exact = 1 /\ tensors = <<>>

Tensor == inputs[InputNames[input]]
Shape == Tensor.shape

\* A product of two size_t.
Times(a, b) == (a * b) % (SizeMax + 1)

Goto(step) == at' = step

Return(c) ==
  /\ Goto("returned") /\ code' = c
  /\ UNCHANGED <<loaded, inputs, input, dim, num_elements, exact, tensors>>

NotLoaded ==
  /\ at = "loaded" /\ ~loaded
  /\ Return("MODEL_NOT_FOUND")

IsLoaded ==
  /\ at = "loaded" /\ loaded
  /\ Goto("input")
  /\ UNCHANGED <<loaded, inputs, input, dim, num_elements, exact, tensors, code>>

MissingInput ==
  /\ at = "input" /\ input <= Len(InputNames)
  /\ InputNames[input] \notin DOMAIN inputs
  /\ Return("MISSING_REQUIRED_INPUT")

FindInput ==
  /\ at = "input" /\ input <= Len(InputNames)
  /\ InputNames[input] \in DOMAIN inputs
  /\ Goto("shape") /\ dim' = 1 /\ num_elements' = 1 /\ exact' = 1
  /\ UNCHANGED <<loaded, inputs, input, tensors, code>>

-----------------------------------------------------------------------------
(* ValidateTensorShape                                                     *)

\* Mutated forms: without the test for overflow; without the limit; with the limit
\* itself refused.
AcceptsWithinLimit(n, d) == d > 0 /\ Times(n, d) <= MaxElements
AcceptsWithoutLimit(n, d) == d > 0 /\ n <= SizeMax \div d
AcceptsBelowLimit(n, d) == d > 0 /\ n <= SizeMax \div d /\ Times(n, d) < MaxElements

AcceptsDim(n, d) == d > 0 /\ n <= SizeMax \div d /\ Times(n, d) <= MaxElements

AcceptsShape == Len(Shape) \in 1..MaxDims /\ AcceptsDim(num_elements, Shape[dim])

InvalidShape ==
  /\ at = "shape" /\ ~AcceptsShape
  /\ Return("INVALID_ARGUMENT")

MultiplyDim ==
  /\ at = "shape" /\ AcceptsShape
  /\ num_elements' = Times(num_elements, Shape[dim])
  /\ exact' = exact * Shape[dim]
  /\ dim' = dim + 1
  /\ Goto(IF dim < Len(Shape) THEN "shape" ELSE "size")
  /\ UNCHANGED <<loaded, inputs, input, tensors, code>>

-----------------------------------------------------------------------------
(* ValidateTensorDataSize, which validates the shape once more             *)

AcceptsSize ==
  /\ num_elements <= SizeMax \div DtypeSize
  /\ Times(num_elements, DtypeSize) <= MaxBytes
  /\ Tensor.bytes = Times(num_elements, DtypeSize)

InvalidSize ==
  /\ at = "size" /\ ~AcceptsSize
  /\ Return("INVALID_ARGUMENT")

CreateTensor ==
  /\ at = "size" /\ AcceptsSize
  /\ tensors' = Append(tensors, [count |-> num_elements, bytes |-> Tensor.bytes,
                                 exact |-> exact])
  /\ input' = input + 1
  /\ Goto("input")
  /\ UNCHANGED <<loaded, inputs, dim, num_elements, exact, code>>

RunSession ==
  /\ at = "input" /\ input > Len(InputNames)
  /\ Return("SUCCESS")

\* ONNX Runtime throws, or there is no memory for the outputs.
Throws ==
  /\ \/ at = "size" /\ AcceptsSize
     \/ at = "input" /\ input > Len(InputNames)
  /\ Return("PROVIDER_EXECUTION_FAILED")

Next ==
  \/ NotLoaded \/ IsLoaded \/ MissingInput \/ FindInput
  \/ InvalidShape \/ MultiplyDim \/ InvalidSize \/ CreateTensor
  \/ RunSession \/ Throws

Spec == Init /\ [][Next]_vars

-----------------------------------------------------------------------------
(* Properties *)

\* What each variable holds; a shape that was accepted is within the limit.
TypeOK ==
  /\ loaded \in BOOLEAN /\ inputs \in Calls
  /\ at \in {"loaded", "input", "shape", "size", "returned"}
  /\ input \in 1..(Len(InputNames) + 1)
  /\ at \in {"shape", "size"} =>
       /\ input \in DOMAIN InputNames /\ InputNames[input] \in DOMAIN inputs
       /\ dim \in 1..(Len(Shape) + 1)
       /\ num_elements \in 1..MaxElements /\ exact \in Nat
  /\ code \in {"none", "SUCCESS", "MODEL_NOT_FOUND", "MISSING_REQUIRED_INPUT",
               "INVALID_ARGUMENT", "PROVIDER_EXECUTION_FAILED"}

\* num_elements is computed with products that could wrap, once for the tensor and
\* once for its size in bytes. Whatever the widths and limits, ONNX Runtime is given no
\* more elements than the dimensions say, and a buffer of exactly as many bytes.
TensorsExact == \A i \in DOMAIN tensors :
  /\ tensors[i].count = tensors[i].exact /\ tensors[i].count <= MaxElements
  /\ tensors[i].bytes = tensors[i].exact * DtypeSize /\ tensors[i].bytes <= MaxBytes

\* The products of the first 0, 1, 2, ... dimensions, as integers.
Products(shape) ==
  LET p[n \in 0..Len(shape)] == IF n = 0 THEN 1 ELSE p[n - 1] * shape[n]
  IN  p

Product(shape) == Products(shape)[Len(shape)]

\* What the comments promise, over the integers.
Valid(t) ==
  /\ Len(t.shape) \in 1..MaxDims
  /\ \A i \in DOMAIN t.shape : t.shape[i] > 0
  /\ Product(t.shape) <= MaxElements /\ Product(t.shape) * DtypeSize <= MaxBytes
  /\ t.bytes = Product(t.shape) * DtypeSize

Given(i) == InputNames[i] \in DOMAIN inputs
ValidUpTo(i) == \A j \in 1..i : Given(j) /\ Valid(inputs[InputNames[j]])

\* The checks that are made step by step, with an early return at each, refuse a call of a
\* model that is not loaded, or for its first input that is missing or invalid, and no other.
RefusesExactly ==
  /\ at = "returned" => (code = "MODEL_NOT_FOUND" <=> ~loaded)
  /\ code = "MISSING_REQUIRED_INPUT" =>
       input \in DOMAIN InputNames /\ ~Given(input) /\ ValidUpTo(input - 1)
  /\ code = "INVALID_ARGUMENT" =>
       /\ Given(input) /\ ~Valid(inputs[InputNames[input]])
       /\ ValidUpTo(input - 1)
  /\ code = "SUCCESS" => ValidUpTo(Len(InputNames)) /\ Len(tensors) = Len(InputNames)

=============================================================================
