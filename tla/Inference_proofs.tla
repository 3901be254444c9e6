-------------------------- MODULE Inference_proofs --------------------------
(* Theorems about Inference, for any widths, limits, names and calls.      *)
EXTENDS Inference, TLAPS, WellFoundedInduction

(* Products *)

(* A set of natural numbers has a least one: < is well founded.           *)
LEMMA LeastNatural ==
  ASSUME NEW S, S \subseteq Nat, S # {}
  PROVE  \E n \in S : \A m \in S : n <= m
<1> DEFINE R == OpToRel(<, Nat)
<1>1. \A x, y \in Nat : x < y => <<x, y>> \in R
  BY DEF OpToRel
<1>2. \E x \in S : \A y \in S : <<y, x>> \notin R
  BY NatLessThanWellFounded, WFMin, Zenon
<1> HIDE DEF R
<1>3. PICK n \in S : \A m \in S : <<m, n>> \notin R
  BY <1>2
<1>4. \A m \in S : ~(m < n)
  BY <1>1, <1>3
<1>5. \A m \in S : n <= m
  BY <1>4
<1> QED
  BY <1>5

(* Induction, in the form of a set that is closed under the successor.     *)
LEMMA NatSetInduction ==
  ASSUME NEW S, 0 \in S, \A n \in S \cap Nat : n + 1 \in S
  PROVE  Nat \subseteq S
<1> SUFFICES ASSUME Nat \ S # {} PROVE FALSE
  OBVIOUS
<1>1. PICK n \in Nat \ S : \A m \in Nat \ S : n <= m
  BY LeastNatural
<1>2. n # 0 /\ n - 1 \in Nat
  BY <1>1
<1>3. n - 1 \in S
  <2>1. n - 1 \notin Nat \ S
    BY <1>1, <1>2
  <2> QED
    BY <1>2, <2>1
<1>4. (n - 1) + 1 \in S
  BY <1>2, <1>3
<1>5. (n - 1) + 1 = n
  BY <1>1
<1> QED
  BY <1>1, <1>4, <1>5

(* The products are what their recursive definition says, and integers:    *)
(* that a function satisfies the definition is shown by extending one for   *)
(* n dimensions to n + 1.                                                  *)
LEMMA ProductSteps ==
  ASSUME NEW s \in Seq(Int)
  PROVE  /\ Products(s) \in [0..Len(s) -> Int]
         /\ Products(s)[0] = 1
         /\ \A n \in 1..Len(s) : Products(s)[n] = Products(s)[n - 1] * s[n]
<1> DEFINE Is(p, n) == /\ p \in [0..n -> Int] /\ p[0] = 1
                       /\ \A i \in 1..n : p[i] = p[i - 1] * s[i]
           Has == {n \in Nat : n <= Len(s) => \E p : Is(p, n)}
<1>1. Len(s) \in Nat /\ \A i \in 1..Len(s) : s[i] \in Int
  OBVIOUS
<1>2. 0 \in Has
  <2>1. Is([i \in 0..0 |-> 1], 0)
    OBVIOUS
  <2> HIDE DEF Is
  <2> QED
    BY <2>1
<1>3. ASSUME NEW n \in Has, n + 1 <= Len(s) PROVE \E p : Is(p, n + 1)
  <2>1. PICK p : Is(p, n)
    <3> HIDE DEF Is
    <3> QED
      BY <1>1, <1>3
  <2>2. n \in Nat /\ p[n] \in Int /\ s[n + 1] \in Int /\ p[n] * s[n + 1] \in Int
    BY <1>1, <1>3, <2>1
  <2> DEFINE q == [i \in 0..(n + 1) |-> IF i = n + 1 THEN p[n] * s[n + 1] ELSE p[i]]
  <2>3. q \in [0..(n + 1) -> Int] /\ q[0] = 1 /\ q[n + 1] = p[n] * s[n + 1]
        /\ \A i \in 0..n : q[i] = p[i]
    BY <2>1, <2>2
  <2> HIDE DEF q
  <2>4. ASSUME NEW i \in 1..(n + 1) PROVE q[i] = q[i - 1] * s[i]
    <3>1. CASE i = n + 1
      <4>1. i - 1 = n /\ n \in 0..n
        BY <2>2, <3>1
      <4> QED
        BY <2>3, <3>1, <4>1
    <3>2. CASE i # n + 1
      <4>1. i \in 1..n /\ i \in 0..n /\ i - 1 \in 0..n
        BY <2>2, <3>2
      <4> QED
        BY <2>1, <2>3, <4>1
    <3> QED
      BY <3>1, <3>2
  <2>5. Is(q, n + 1)
    BY <2>3, <2>4
  <2> HIDE DEF Is
  <2> QED
    BY <2>5
<1>4. Nat \subseteq Has
  <2> HIDE DEF Is
  <2>1. \A n \in Has \cap Nat : n + 1 \in Has
    BY <1>3
  <2> HIDE DEF Has
  <2> QED
    BY <1>2, <2>1, NatSetInduction
<1>5. PICK p : Is(p, Len(s))
  <2> HIDE DEF Is
  <2> QED
    BY <1>1, <1>4
<1> DEFINE Eq(f) == f = [n \in 0..Len(s) |-> IF n = 0 THEN 1 ELSE f[n - 1] * s[n]]
           r == CHOOSE f : Eq(f)
<1>6. Eq(p)
  BY <1>1, <1>5
<1>7. Eq(r)
  <2> HIDE DEF Eq
  <2> QED
    BY <1>6
<1>8. Products(s) = r
  BY DEF Products
<1> HIDE DEF r
<1>9. DOMAIN r = 0..Len(s) /\ r[0] = 1 /\ \A n \in 1..Len(s) : r[n] = r[n - 1] * s[n]
  BY <1>1, <1>7
<1> DEFINE Whole == {n \in Nat : n <= Len(s) => r[n] \in Int}
<1>10. 0 \in Whole /\ \A n \in Whole \cap Nat : n + 1 \in Whole
  <2>1. 0 \in Whole
    BY <1>9
  <2>2. ASSUME NEW n \in Whole, n + 1 <= Len(s) PROVE r[n + 1] \in Int
    <3>1. n + 1 \in 1..Len(s) /\ n + 1 - 1 = n /\ n <= Len(s)
      BY <1>1, <2>2
    <3>2. r[n + 1] = r[n] * s[n + 1] /\ r[n] \in Int /\ s[n + 1] \in Int
      BY <1>1, <1>9, <3>1
    <3> QED
      BY <3>2
  <2> QED
    BY <2>1, <2>2
<1>11. Nat \subseteq Whole
  <2> HIDE DEF Whole
  <2> QED
    BY <1>10, NatSetInduction
<1>12. r \in [0..Len(s) -> Int]
  <2>1. r = [n \in 0..Len(s) |-> r[n]]
    BY <1>7
  <2>2. \A n \in 0..Len(s) : r[n] \in Int
    BY <1>1, <1>11
  <2> QED
    BY <2>1, <2>2
<1> QED
  BY <1>8, <1>9, <1>12

(* While the dimensions are positive, a product only grows: one that is too *)
(* large already stays so, whatever dimensions follow.                     *)
LEMMA ProductsGrow ==
  ASSUME NEW s \in Seq(Int), \A i \in 1..Len(s) : s[i] > 0,
         NEW m \in 0..Len(s)
  PROVE  Products(s)[m] \in Nat \ {0} /\ Products(s)[m] <= Product(s)
<1> DEFINE r == Products(s)
<1>1. /\ Len(s) \in Nat /\ r \in [0..Len(s) -> Int] /\ r[0] = 1
      /\ \A n \in 1..Len(s) : r[n] = r[n - 1] * s[n] /\ s[n] \in Nat \ {0}
  BY ProductSteps
<1> HIDE DEF r
<1>2. ASSUME NEW n \in Nat, n + 1 <= Len(s), r[n] \in Nat \ {0}
      PROVE  r[n + 1] \in Nat \ {0} /\ r[n] <= r[n + 1]
  <2>1. n + 1 \in 1..Len(s) /\ (n + 1) - 1 = n
    BY <1>1, <1>2
  <2>2. r[n + 1] = r[n] * s[n + 1] /\ s[n + 1] \in Nat \ {0}
    BY <1>1, <2>1
  <2> DEFINE a == r[n]
             b == s[n + 1]
  <2>3. a \in Nat \ {0} /\ b \in Nat \ {0} /\ r[n + 1] = a * b
    BY <1>2, <2>2
  <2>4. ASSUME NEW x \in Nat \ {0}, NEW y \in Nat \ {0}
        PROVE  x * y \in Nat \ {0} /\ x <= x * y
    OBVIOUS
  <2> HIDE DEF a, b
  <2>5. a * b \in Nat \ {0} /\ a <= a * b
    BY <2>3, <2>4
  <2> QED
    BY <2>3, <2>5 DEF a
<1> DEFINE Positive == {n \in Nat : n <= Len(s) => r[n] \in Nat \ {0}}
<1>3. Nat \subseteq Positive
  <2>1. 0 \in Positive
    BY <1>1
  <2>2. \A n \in Positive \cap Nat : n + 1 \in Positive
    BY <1>1, <1>2
  <2> HIDE DEF Positive
  <2> QED
    BY <2>1, <2>2, NatSetInduction
<1>4. \A n \in 0..Len(s) : r[n] \in Nat \ {0}
  BY <1>1, <1>3
<1> DEFINE Above == {k \in Nat : m + k <= Len(s) => r[m] <= r[m + k]}
<1>5. Nat \subseteq Above
  <2>1. 0 \in Above
    BY <1>4
  <2>2. ASSUME NEW k \in Above \cap Nat, m + (k + 1) <= Len(s)
        PROVE  r[m] <= r[m + (k + 1)]
    <3>1. m + k \in Nat /\ m + k <= Len(s) /\ (m + k) + 1 = m + (k + 1)
      BY <1>1, <2>2
    <3>2. r[m + k] \in Nat \ {0} /\ r[m] \in Nat \ {0}
      BY <1>1, <1>4, <3>1
    <3>3. r[m + (k + 1)] \in Nat \ {0} /\ r[m + k] <= r[m + (k + 1)]
      BY <1>2, <2>2, <3>1, <3>2
    <3>4. r[m] <= r[m + k]
      BY <2>2, <3>1
    <3> QED
      BY <3>2, <3>3, <3>4
  <2>3. \A k \in Above \cap Nat : k + 1 \in Above
    BY <2>2
  <2> HIDE DEF Above
  <2> QED
    BY <2>1, <2>3, NatSetInduction
<1>6. r[m] <= r[Len(s)]
  <2> DEFINE k == Len(s) - m
  <2>1. k \in Nat /\ m + k = Len(s)
    BY <1>1
  <2> HIDE DEF k
  <2>2. k \in Above
    BY <1>5, <2>1
  <2> QED
    BY <2>1, <2>2
<1> QED
  BY <1>4, <1>6 DEF r, Product

-----------------------------------------------------------------------------

(* The test that the code makes before a multiplication is enough for the  *)
(* product of two size_t to be the one of the integers.                    *)
LEMMA QuotientBounds ==
  ASSUME NEW n \in Nat, NEW d \in Nat \ {0}, n <= SizeMax \div d
  PROVE  n * d \in Nat /\ n * d <= SizeMax
<1>1. SizeMax \in Nat  BY InferenceAssumption
<1>2. (SizeMax \div d) \in Nat /\ (SizeMax \div d) * d <= SizeMax  BY <1>1
<1>3. n * d <= (SizeMax \div d) * d  BY <1>2
<1>4. n * d \in Nat  OBVIOUS
<1> QED  BY <1>1, <1>2, <1>3, <1>4

LEMMA TimesExact ==
  ASSUME NEW n \in Nat, NEW d \in Nat \ {0}, n <= SizeMax \div d
  PROVE  Times(n, d) = n * d
<1>1. SizeMax \in Nat  BY InferenceAssumption
<1>2. n * d \in Nat /\ n * d <= SizeMax  BY QuotientBounds
<1> DEFINE p == n * d
<1>3. p \in Nat /\ p <= SizeMax  BY <1>2
<1>4. p % (SizeMax + 1) = p
  <2> HIDE DEF p
  <2> QED  BY <1>1, <1>3
<1> QED  BY <1>4 DEF Times

(* What num_elements and dim are while a shape is validated: dim - 1        *)
(* dimensions have been found positive, and num_elements is their product. *)
Counted ==
  at \in {"shape", "size"} =>
    /\ exact = num_elements /\ exact = Products(Shape)[dim - 1]
    /\ \A i \in 1..(dim - 1) : Shape[i] > 0
    /\ dim > 1 => Len(Shape) \in 1..MaxDims
    /\ at = "shape" => dim = 1 \/ dim <= Len(Shape)
    /\ at = "size" => dim = Len(Shape) + 1 /\ dim > 1

Tensors == [count : Nat, bytes : Nat, exact : Nat]

(* The inputs before the current one have each passed and become a tensor. *)
Passed ==
  /\ at # "returned" => code = "none"
  /\ at \notin {"loaded", "returned"} => loaded
  /\ ValidUpTo(input - 1)
  /\ Len(tensors) = input - 1

IInv ==
  TypeOK /\ Counted /\ tensors \in Seq(Tensors) /\ TensorsExact /\ Passed /\ RefusesExactly

LEMMA Limits ==
  /\ SizeMax \in Nat \ {0} /\ MaxDims \in Nat \ {0} /\ DtypeSize \in Nat \ {0}
  /\ MaxElements \in Nat \ {0} /\ MaxElements <= SizeMax
  /\ MaxBytes \in Nat \ {0} /\ MaxBytes <= SizeMax
BY InferenceAssumption

LEMMA CallTypes ==
  ASSUME TypeOK, at \in {"shape", "size"}
  PROVE  /\ Shape \in Seq(Int) /\ Tensor.bytes \in Nat
         /\ \A i \in DOMAIN Shape : Shape[i] <= SizeMax
BY InferenceAssumption DEF TypeOK, Shape, Tensor

(* When the tests before a multiplication or after it fail, the product of  *)
(* the integers is over the limit, which is a size_t itself.               *)
LEMMA RefusedProduct ==
  ASSUME NEW n \in Nat, NEW d \in Nat \ {0}, NEW limit \in Nat, limit <= SizeMax,
         ~(n <= SizeMax \div d /\ Times(n, d) <= limit)
  PROVE  n * d > limit
<1>1. SizeMax \in Nat
  BY Limits
<1>2. CASE n <= SizeMax \div d
  <2>1. Times(n, d) = n * d
    BY <1>2, TimesExact
  <2>2. n * d \in Nat
    OBVIOUS
  <2> QED
    BY <1>2, <2>1, <2>2
<1>3. CASE ~(n <= SizeMax \div d)
  <2> DEFINE q == SizeMax \div d
  <2>1. q \in Nat /\ SizeMax < (q + 1) * d
    BY <1>1
  <2>2. q + 1 <= n
    BY <1>3, <2>1
  <2> HIDE DEF q
  <2>3. (q + 1) * d <= n * d
    BY <2>1, <2>2
  <2> QED
    BY <1>1, <2>1, <2>3
<1> QED
  BY <1>2, <1>3

-----------------------------------------------------------------------------
(* Initial states and steps *)

LEMMA InitInv == Init => IInv
<1> SUFFICES ASSUME Init PROVE IInv
  OBVIOUS
<1>1. input = 1 /\ tensors = <<>> /\ code = "none" /\ at = "loaded"
  BY DEF Init
<1>2. TypeOK
  BY InferenceAssumption DEF Init, TypeOK
<1>3. ValidUpTo(input - 1)
  BY <1>1 DEF ValidUpTo
<1>4. Len(tensors) = input - 1 /\ tensors \in Seq(Tensors) /\ TensorsExact
  BY <1>1 DEF TensorsExact
<1> QED
  BY <1>1, <1>2, <1>3, <1>4 DEF IInv, Counted, Passed, RefusesExactly

(* Returning leaves everything but the result, so what is left to show is  *)
(* that the result is the right one.                                       *)
LEMMA ReturnInv ==
  ASSUME IInv, NEW c \in {"SUCCESS", "MODEL_NOT_FOUND", "MISSING_REQUIRED_INPUT",
                          "INVALID_ARGUMENT", "PROVIDER_EXECUTION_FAILED"}, Return(c),
         c = "MODEL_NOT_FOUND" <=> ~loaded,
         c = "MISSING_REQUIRED_INPUT" => input \in DOMAIN InputNames /\ ~Given(input),
         c = "INVALID_ARGUMENT" => Given(input) /\ ~Valid(inputs[InputNames[input]]),
         c = "SUCCESS" => input > Len(InputNames)
  PROVE  IInv'
<1> USE DEF Return, Goto
<1>1. TypeOK' /\ Counted' /\ tensors' \in Seq(Tensors) /\ TensorsExact'
  BY DEF IInv, TypeOK, Counted, TensorsExact, Tensors
<1>2. ValidUpTo(input - 1) /\ Len(tensors) = input - 1 /\ input \in 1..(Len(InputNames) + 1)
  BY DEF IInv, Passed, TypeOK
<1>3. ValidUpTo(input - 1)' /\ Len(tensors)' = input' - 1
  BY <1>2 DEF ValidUpTo, Given
<1>4. Passed'
  BY <1>3 DEF Passed
<1>5. c = "SUCCESS" => input - 1 = Len(InputNames)
  BY <1>2, InferenceAssumption
<1>6. c = "SUCCESS" => ValidUpTo(Len(InputNames))' /\ Len(tensors') = Len(InputNames)
  BY <1>2, <1>3, <1>5
<1>7. RefusesExactly'
  BY <1>3, <1>6 DEF RefusesExactly, Given
<1> QED
  BY <1>1, <1>4, <1>7 DEF IInv

LEMMA FindInputInv == ASSUME IInv, FindInput PROVE IInv'
<1> USE DEF FindInput, Goto
<1>1. input \in DOMAIN InputNames
  BY InferenceAssumption DEF IInv, TypeOK
<1>2. Shape' \in Seq(Int)
  BY <1>1, InferenceAssumption DEF IInv, TypeOK, Shape, Tensor
<1>3. TypeOK'
  BY <1>1, <1>2, InferenceAssumption DEF IInv, TypeOK
<1>4. Products(Shape')[0] = 1
  BY <1>2, ProductSteps
<1>5. Counted'
  BY <1>4 DEF Counted
<1>6. Passed'
  BY DEF IInv, Passed, ValidUpTo, Given
<1> QED
  BY <1>3, <1>5, <1>6 DEF IInv, TensorsExact, RefusesExactly, Passed

LEMMA MultiplyDimInv == ASSUME IInv, MultiplyDim PROVE IInv'
<1> USE DEF MultiplyDim, Goto
<1> DEFINE d == Shape[dim]
<1>1. Shape \in Seq(Int) /\ Shape' = Shape
  BY CallTypes DEF IInv, Shape, Tensor
<1>2. num_elements \in 1..MaxElements /\ exact = num_elements /\ MaxElements \in Nat
  BY Limits DEF IInv, TypeOK, Counted
<1>3. dim \in 1..(Len(Shape) + 1) /\ Len(Shape) \in Nat
  BY <1>1 DEF IInv, TypeOK
<1>4. AcceptsDim(num_elements, d)
  BY DEF AcceptsShape
<1>5. Len(Shape) \in 1..MaxDims
  BY DEF AcceptsShape
<1>6. dim \in 1..Len(Shape)
  BY <1>3, <1>5 DEF IInv, Counted
<1>7. d \in Nat \ {0} /\ num_elements <= SizeMax \div d
  BY <1>1, <1>4, <1>6 DEF AcceptsDim
<1>8. Times(num_elements, d) = num_elements * d
  BY <1>2, <1>7, TimesExact
<1>9. num_elements' = num_elements * d /\ exact' = num_elements * d
  BY <1>2, <1>8
<1>10. num_elements' \in 1..MaxElements
  <2>1. num_elements * d \in Nat \ {0}
    BY <1>2, <1>7
  <2>2. num_elements * d <= MaxElements
    BY <1>4, <1>8 DEF AcceptsDim
  <2> QED
    BY <2>1, <2>2, <1>2, <1>9
<1>11. /\ dim' \in 1..(Len(Shape) + 1) /\ dim' > 1 /\ dim' - 1 = dim
       /\ at' = "shape" => dim' <= Len(Shape)
       /\ at' = "size" => dim' = Len(Shape) + 1
  BY <1>6, <1>5, <1>3
<1>12. TypeOK'
  BY <1>1, <1>2, <1>9, <1>10, <1>11 DEF IInv, TypeOK
<1>13. num_elements * d = Products(Shape)[dim]
  <2>1. Products(Shape)[dim] = Products(Shape)[dim - 1] * d
    BY <1>1, <1>6, ProductSteps
  <2>2. num_elements = Products(Shape)[dim - 1]
    BY DEF IInv, Counted
  <2> QED
    BY <2>1, <2>2
<1>14. \A i \in 1..(dim' - 1) : Shape[i] > 0
  <2> SUFFICES ASSUME NEW i \in 1..dim PROVE Shape[i] > 0
    BY <1>11
  <2>1. i = dim \/ i \in 1..(dim - 1)
    BY <1>6
  <2> QED
    BY <1>7, <2>1 DEF IInv, Counted
<1>15. Counted'
  BY <1>1, <1>5, <1>9, <1>11, <1>13, <1>14 DEF Counted
<1>16. Passed'
  BY DEF IInv, Passed, ValidUpTo, Given
<1> QED
  BY <1>12, <1>15, <1>16 DEF IInv, TensorsExact, RefusesExactly, Passed

(* A tensor whose shape is refused at one of its dimensions is not valid.  *)
LEMMA InvalidShapeInv == ASSUME IInv, InvalidShape PROVE IInv'
<1> USE DEF InvalidShape
<1> DEFINE d == Shape[dim]
<1>1. Shape \in Seq(Int) /\ Len(Shape) \in Nat /\ Shape = Tensor.shape
  BY CallTypes DEF IInv, Shape
<1>2. num_elements \in Nat \ {0} /\ num_elements = Products(Shape)[dim - 1]
  BY Limits DEF IInv, TypeOK, Counted
<1>3. ASSUME Valid(Tensor) PROVE FALSE
  <2>1. /\ Len(Shape) \in 1..MaxDims /\ Product(Shape) <= MaxElements
        /\ \A i \in 1..Len(Shape) : Shape[i] > 0
    BY <1>1, <1>3 DEF Valid
  <2>2. dim \in 1..Len(Shape)
    BY <1>1, <2>1 DEF IInv, TypeOK, Counted
  <2>3. d \in Nat \ {0} /\ ~AcceptsDim(num_elements, d)
    BY <1>1, <2>1, <2>2 DEF AcceptsShape
  <2>4. num_elements * d > MaxElements
    BY <1>2, <2>3, RefusedProduct, Limits DEF AcceptsDim
  <2>5. Products(Shape)[dim] = num_elements * d
    BY <1>1, <1>2, <2>2, ProductSteps
  <2>6. Products(Shape)[dim] \in Nat /\ Products(Shape)[dim] <= Product(Shape)
    BY <1>1, <2>1, <2>2, ProductsGrow
  <2>7. Product(Shape) \in Nat
    BY <1>1, <2>1, ProductsGrow DEF Product
  <2> QED
    BY <2>1, <2>4, <2>5, <2>6, <2>7, Limits
<1>4. Given(input)
  BY DEF IInv, TypeOK, Given
<1> QED
  BY <1>3, <1>4, ReturnInv DEF Tensor, IInv, Passed

(* What num_elements is when the size is validated, and what is refused.   *)
LEMMA SizeFacts ==
  ASSUME IInv, at = "size"
  PROVE  /\ Tensor.bytes \in Nat /\ num_elements \in 1..MaxElements
         /\ num_elements \in Nat \ {0}
         /\ exact = num_elements /\ num_elements = Product(Tensor.shape)
         /\ Len(Tensor.shape) \in 1..MaxDims
         /\ \A i \in DOMAIN Tensor.shape : Tensor.shape[i] > 0
<1>1. Shape \in Seq(Int) /\ Tensor.bytes \in Nat
  BY CallTypes DEF IInv
<1>2. num_elements \in 1..MaxElements /\ num_elements \in Nat \ {0}
  BY Limits DEF IInv, TypeOK
<1>3. dim - 1 = Len(Shape) /\ Len(Shape) \in 1..MaxDims
  BY <1>1 DEF IInv, Counted
<1> QED
  BY <1>1, <1>2, <1>3 DEF IInv, Counted, Product, Shape

LEMMA InvalidSizeInv == ASSUME IInv, InvalidSize PROVE IInv'
<1> USE DEF InvalidSize
<1>1. at = "size" /\ Given(input)
  BY DEF IInv, TypeOK, Given
<1>2. ASSUME Valid(Tensor) PROVE FALSE
  <2>1. /\ num_elements * DtypeSize <= MaxBytes
        /\ Tensor.bytes = num_elements * DtypeSize
    BY <1>1, <1>2, SizeFacts DEF Valid
  <2>2. num_elements * DtypeSize \in Nat
    BY <1>1, SizeFacts, Limits
  <2>3. num_elements <= SizeMax \div DtypeSize /\ Times(num_elements, DtypeSize) <= MaxBytes
    BY <1>1, <2>1, <2>2, SizeFacts, RefusedProduct, Limits
  <2>4. Times(num_elements, DtypeSize) = num_elements * DtypeSize
    BY <1>1, <2>3, SizeFacts, TimesExact, Limits
  <2> QED
    BY <2>1, <2>3, <2>4 DEF AcceptsSize
<1> QED
  BY <1>1, <1>2, ReturnInv DEF Tensor, IInv, Passed

LEMMA CreateTensorInv == ASSUME IInv, CreateTensor PROVE IInv'
<1> USE DEF CreateTensor, Goto
<1> DEFINE t == [count |-> num_elements, bytes |-> Tensor.bytes, exact |-> exact]
<1>1. /\ Tensor.bytes \in Nat /\ num_elements \in 1..MaxElements /\ exact = num_elements
      /\ num_elements \in Nat \ {0}
  BY SizeFacts
<1>2. num_elements <= SizeMax \div DtypeSize /\ Times(num_elements, DtypeSize) <= MaxBytes
  BY DEF AcceptsSize
<1>3. Times(num_elements, DtypeSize) = num_elements * DtypeSize
  BY <1>1, <1>2, TimesExact, Limits
<1>4. t \in Tensors
  BY <1>1 DEF Tensors
<1>5. /\ t.count = t.exact /\ t.count <= MaxElements
      /\ t.bytes = t.exact * DtypeSize /\ t.bytes <= MaxBytes
  BY <1>1, <1>2, <1>3, Limits DEF AcceptsSize
<1>6. tensors \in Seq(Tensors) /\ TensorsExact /\ Len(tensors) = input - 1
  BY DEF IInv, Passed
<1>7. tensors' \in Seq(Tensors) /\ Len(tensors') = Len(tensors) + 1
  BY <1>4, <1>6
<1>8. TensorsExact'
  <2> SUFFICES ASSUME NEW i \in DOMAIN tensors'
               PROVE  /\ tensors'[i].count = tensors'[i].exact
                      /\ tensors'[i].count <= MaxElements
                      /\ tensors'[i].bytes = tensors'[i].exact * DtypeSize
                      /\ tensors'[i].bytes <= MaxBytes
    BY DEF TensorsExact
  <2>1. \/ i \in DOMAIN tensors /\ tensors'[i] = tensors[i]
        \/ tensors'[i] = t
    BY <1>4, <1>6
  <2> QED
    BY <2>1, <1>5, <1>6 DEF TensorsExact
<1>9. input \in DOMAIN InputNames /\ input \in Nat
  BY DEF IInv, TypeOK
<1>10. TypeOK'
  BY <1>9, InferenceAssumption DEF IInv, TypeOK
<1>11. Counted'
  BY DEF Counted
<1>12. Given(input) /\ Valid(inputs[InputNames[input]])
  <2>1. Valid(Tensor)
    BY <1>1, <1>3, <1>5, SizeFacts DEF Valid, AcceptsSize
  <2> QED
    BY <2>1 DEF Tensor, IInv, TypeOK, Given
<1>13. ValidUpTo(input - 1)
  BY DEF IInv, Passed
<1>14. ValidUpTo(input)
  <2> SUFFICES ASSUME NEW j \in 1..input PROVE Given(j) /\ Valid(inputs[InputNames[j]])
    BY DEF ValidUpTo
  <2>1. j = input \/ j \in 1..(input - 1)
    BY <1>9
  <2> QED
    BY <1>12, <1>13, <2>1 DEF ValidUpTo
<1>15. Passed'
  <2>1. input' - 1 = input /\ Len(tensors') = input
    BY <1>6, <1>7, <1>9
  <2>2. ValidUpTo(input - 1)'
    BY <1>14, <2>1 DEF ValidUpTo, Given
  <2>3. at' # "returned" /\ code' = "none" /\ loaded'
    BY DEF IInv, Passed
  <2> QED
    BY <2>1, <2>2, <2>3 DEF Passed
<1>16. RefusesExactly'
  BY DEF IInv, Passed, RefusesExactly
<1> QED
  BY <1>7, <1>8, <1>10, <1>11, <1>15, <1>16 DEF IInv

LEMMA NextInv == IInv /\ [Next]_vars => IInv'
<1> SUFFICES ASSUME IInv, [Next]_vars PROVE IInv'
  OBVIOUS
<1>1. CASE MissingInput
  <2>1. input \in DOMAIN InputNames /\ ~Given(input)
    BY <1>1, InferenceAssumption DEF MissingInput, IInv, TypeOK, Given
  <2> QED
    BY <1>1, <2>1, ReturnInv DEF MissingInput, IInv, Passed
<1>2. CASE FindInput
  BY <1>2, FindInputInv
<1>3. CASE InvalidShape
  BY <1>3, InvalidShapeInv
<1>4. CASE MultiplyDim
  BY <1>4, MultiplyDimInv
<1>5. CASE InvalidSize
  BY <1>5, InvalidSizeInv
<1>6. CASE CreateTensor
  BY <1>6, CreateTensorInv
<1>7. CASE RunSession
  BY <1>7, ReturnInv DEF RunSession, IInv, Passed
<1>8. CASE Throws
  BY <1>8, ReturnInv DEF Throws, IInv, Passed
<1>9. CASE UNCHANGED vars
  BY <1>9 DEF vars, IInv, TypeOK, Counted, TensorsExact, Passed, RefusesExactly, ValidUpTo,
              Given, Shape, Tensor
<1>10. CASE NotLoaded
  BY <1>10, ReturnInv DEF NotLoaded
<1>11. CASE IsLoaded
  <2>1. TypeOK' /\ Counted'
    BY <1>11 DEF IsLoaded, Goto, IInv, TypeOK, Counted
  <2>2. TensorsExact' /\ Passed' /\ RefusesExactly'
    BY <1>11
    DEF IsLoaded, Goto, IInv, TensorsExact, Passed, RefusesExactly, ValidUpTo, Given
  <2> QED
    BY <1>11, <2>1, <2>2 DEF IsLoaded, IInv
<1> QED
  BY <1>1, <1>2, <1>3, <1>4, <1>5, <1>6, <1>7, <1>8, <1>9, <1>10, <1>11 DEF Next

LEMMA Inductive == Spec => []IInv
BY InitInv, NextInv, PTL DEF Spec

(* A shape that ValidateTensorShape has accepted so far is within the       *)
(* limit, and the validation stays within the shape.                       *)
THEOREM TypeCorrect == Spec => []TypeOK
<1>1. IInv => TypeOK  BY DEF IInv
<1> QED  BY <1>1, Inductive, PTL

(* Whatever a client sends: ONNX Runtime is told the number of elements     *)
(* that the dimensions have as integers, and of a buffer of their size.    *)
THEOREM TensorsAreExact == Spec => []TensorsExact
<1>1. IInv => TensorsExact  BY DEF IInv
<1> QED  BY <1>1, Inductive, PTL

(* Whatever a client sends: the checks refuse a call for its first input    *)
(* that is missing or not valid over the integers, with the code for what   *)
(* is wrong with it, and refuse no call whose inputs are all valid.        *)
THEOREM RefusesExactlyInvalid == Spec => []RefusesExactly
<1>1. IInv => RefusesExactly  BY DEF IInv
<1> QED  BY <1>1, Inductive, PTL

=============================================================================
