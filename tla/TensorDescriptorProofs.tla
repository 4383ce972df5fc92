----------------------- MODULE TensorDescriptorProofs -----------------------
(***************************************************************************)
(* For shapes of any number of dimensions and any sizes and strides: what  *)
(* the validation accepts has no gaps, and the two checks of a torch.Tensor*)
(* agree.                                                                  *)
(*                                                                         *)
(* The definitions go through a shape one dimension at a time, so the proof*)
(* needs induction.  The one the library offers takes an operator; here it *)
(* is stated for sets, from the least number that would not be in the set. *)
(***************************************************************************)
EXTENDS TensorDescriptor, WellFoundedInduction, TLAPS

LEMMA Widths ==
  /\ WordSize \in Nat \ {0} /\ WordSize = 2 * (Int64Max + 1)
  /\ IntSize \in Nat \ {0} /\ IntSize = 2 * (IntMax + 1)
  /\ SizeMax = WordSize - 1
  /\ Int64Max \in Nat /\ IntMax \in Nat
BY WordsAssumption DEF Int64Max, IntMax, SizeMax

LEMMA Remainder ==
  ASSUME NEW m \in Nat \ {0}, NEW n \in Int
  PROVE  n % m \in 0 .. m - 1 /\ (n \in 0 .. m - 1 => n % m = n)
OBVIOUS

LEMMA Quotient ==
  ASSUME NEW m \in Nat \ {0}, NEW n \in Nat
  PROVE  /\ n \div m \in 0 .. n
         /\ (n \div m) * m <= n /\ n < (n \div m) * m + m
OBVIOUS

(* What fits is left alone by the conversions. *)
LEMMA Fitting ==
  /\ \A n \in 0 .. SizeMax : Word(n) = n
  /\ \A n \in 0 .. Int64Max : ToInt64(n) = n
  /\ \A n \in 0 .. IntMax : ToInt(n) = n
  /\ \A n \in 0 .. IntSize - 1 : Unsigned(n) = n
  /\ \A n \in Int : Unsigned(n) \in 0 .. IntSize - 1
  /\ \A n \in Int : Word(n) \in 0 .. SizeMax
  /\ \A n \in Int : ToInt(n) \in Int /\ ToInt(n) <= IntMax
<1>1. /\ \A n \in 0 .. SizeMax : Word(n) = n
      /\ \A n \in Int : Word(n) \in 0 .. SizeMax
  BY Widths, Remainder DEF Word
<1>2. /\ \A n \in 0 .. IntSize - 1 : Unsigned(n) = n
      /\ \A n \in Int : Unsigned(n) \in 0 .. IntSize - 1
  BY Widths, Remainder DEF Unsigned
<1>3. \A n \in 0 .. Int64Max : ToInt64(n) = n
  <2>1. \A n \in 0 .. Int64Max : n % WordSize = n
    BY Widths, Remainder
  <2>2. WordSize \div 2 = Int64Max + 1
    BY Widths
  <2> QED
    BY Widths, <2>1, <2>2 DEF ToInt64, Signed
<1>4. \A n \in 0 .. IntMax : ToInt(n) = n
  <2>1. \A n \in 0 .. IntMax : n % IntSize = n
    BY Widths, Remainder
  <2>2. IntSize \div 2 = IntMax + 1
    BY Widths
  <2> QED
    BY Widths, <2>1, <2>2 DEF ToInt, Signed
<1>5. ASSUME NEW n \in Int PROVE ToInt(n) \in Int /\ ToInt(n) <= IntMax
  <2>1. PICK m \in 0 .. IntSize - 1 : m = n % IntSize
    BY Widths, Remainder
  <2>2. IntSize \div 2 = IntMax + 1
    BY Widths
  <2> QED
    BY Widths, <2>1, <2>2 DEF ToInt, Signed
<1> QED
  BY <1>1, <1>2, <1>3, <1>4, <1>5

-----------------------------------------------------------------------------
LEMMA LeastNumber ==
  ASSUME NEW D \in SUBSET Nat, D # {}
  PROVE  \E d \in D : \A e \in D : d <= e
<1> DEFINE R == OpToRel(<, Nat)
<1>1. \A x, y \in Nat : <<y, x>> \in R <=> y < x
  BY DEF OpToRel
<1>2. IsWellFoundedOn(R, Nat)
  BY NatLessThanWellFounded
<1> HIDE DEF R
<1>3. PICK d \in D : \A e \in D : <<e, d>> \notin R
  BY <1>2, WFMin
<1>4. \A e \in D : ~ e < d
  BY <1>1, <1>3, Zenon
<1> QED
  BY <1>4

(* What holds at 0 and is handed on holds up to N. *)
LEMMA Induction ==
  ASSUME NEW N \in Nat, NEW T, 0 \in T,
         \A k \in 0 .. N - 1 : k \in T => k + 1 \in T
  PROVE  \A k \in 0 .. N : k \in T
<1> DEFINE D == {k \in 0 .. N : k \notin T}
<1>1. SUFFICES ASSUME D # {} PROVE FALSE
  OBVIOUS
<1>2. PICK d \in D : \A e \in D : d <= e
  <2>1. D \in SUBSET Nat
    OBVIOUS
  <2> HIDE DEF D
  <2> QED
    BY <1>1, <2>1, LeastNumber
<1>3. d - 1 \in 0 .. N - 1 /\ d - 1 \notin D
  BY <1>2
<1>4. d - 1 + 1 = d
  OBVIOUS
<1> QED
  BY <1>3, <1>4

(* A function is defined by its value at 0 and by a step. *)
LEMMA Recursion ==
  ASSUME NEW a \in Int, NEW N \in Nat, NEW G \in [1 .. N -> [Int -> Int]]
  PROVE  \E f \in [0 .. N -> Int] :
           /\ f[0] = a
           /\ \A k \in 1 .. N : f[k] = G[k][f[k - 1]]
<1> DEFINE Step(k, i) == G[k][i]
           Is(f, m) == /\ f \in [0 .. m -> Int]
                       /\ f[0] = a
                       /\ \A k \in 1 .. m : f[k] = Step(k, f[k - 1])
           T == {m \in 0 .. N : \E f : Is(f, m)}
<1>1. \A k \in 1 .. N, i \in Int : Step(k, i) \in Int
  OBVIOUS
<1> HIDE DEF Step
<1>2. Is([k \in 0 .. 0 |-> a], 0)
  OBVIOUS
<1>3. ASSUME NEW m \in 0 .. N - 1, NEW f, Is(f, m)
      PROVE  \E g : Is(g, m + 1)
  <2> DEFINE v == Step(m + 1, f[m])
             g == [k \in 0 .. m + 1 |-> IF k = m + 1 THEN v ELSE f[k]]
  <2>1. f[m] \in Int /\ v \in Int
    BY <1>1, <1>3
  <2> HIDE DEF v
  <2>2. /\ g \in [0 .. m + 1 -> Int] /\ g[m + 1] = v
        /\ \A k \in 0 .. m : g[k] = f[k]
    <3>1. \A k \in 0 .. m : k # m + 1 /\ f[k] \in Int
      BY <1>3
    <3>2. g \in [0 .. m + 1 -> Int]
      BY <2>1, <3>1
    <3>3. \A k \in 0 .. m : g[k] = f[k]
      BY <3>1
    <3>4. g[m + 1] = v
      <4>1. m + 1 \in 0 .. m + 1
        OBVIOUS
      <4> QED
        BY <4>1
    <3> QED
      BY <3>2, <3>3, <3>4, Zenon
  <2> HIDE DEF g
  <2>3. g[0] = a
    BY <1>3, <2>2
  <2>4. ASSUME NEW k \in 1 .. m + 1 PROVE g[k] = Step(k, g[k - 1])
    <3>1. g[k - 1] = f[k - 1]
      BY <2>2
    <3>2. CASE k = m + 1
      <4>1. k - 1 = m
        BY <3>2
      <4> QED
        BY <2>2, <3>1, <3>2, <4>1 DEF v
    <3>3. CASE k # m + 1
      <4>1. k \in 1 .. m /\ k \in 0 .. m
        BY <3>3
      <4> QED
        BY <1>3, <2>2, <3>1, <4>1
    <3> QED
      BY <3>2, <3>3
  <2>5. Is(g, m + 1)
    BY <2>2, <2>3, <2>4
  <2> HIDE DEF Is
  <2> QED
    BY <2>5
<1> HIDE DEF Is
<1>4. 0 \in T
  BY <1>2
<1>5. \A m \in 0 .. N - 1 : m \in T => m + 1 \in T
  BY <1>3
<1> HIDE DEF T
<1>6. \A m \in 0 .. N : m \in T
  BY <1>4, <1>5, Induction
<1>7. PICK f : Is(f, N)
  <2>1. N \in T
    BY <1>6
  <2> QED
    BY <2>1 DEF T
<1> QED
  BY <1>7 DEF Is, Step

(* So values computed from integers by integers are integers. *)
LEMMA Integral ==
  ASSUME NEW N \in Nat, NEW h, h[0] \in Int,
         \A k \in 1 .. N : h[k - 1] \in Int => h[k] \in Int
  PROVE  \A k \in 0 .. N : h[k] \in Int
<1> DEFINE T == {k \in 0 .. N : h[k] \in Int}
<1>1. ASSUME NEW k \in 0 .. N - 1, k \in T PROVE k + 1 \in T
  <2>1. k + 1 \in 1 .. N /\ k + 1 - 1 = k
    OBVIOUS
  <2> QED
    BY <1>1, <2>1
<1>2. 0 \in T
  OBVIOUS
<1> HIDE DEF T
<1>3. \A k \in 0 .. N : k \in T
  BY <1>1, <1>2, Induction
<1> QED
  BY <1>3 DEF T

(* The same from N + 1 downwards. *)
LEMMA InductionDown ==
  ASSUME NEW N \in Nat, NEW T, N + 1 \in T,
         \A k \in 1 .. N : k + 1 \in T => k \in T
  PROVE  \A k \in 1 .. N + 1 : k \in T
<1> DEFINE U == {j \in 0 .. N : N + 1 - j \in T}
<1>1. ASSUME NEW j \in 0 .. N - 1, j \in U PROVE j + 1 \in U
  <2>1. N - j \in 1 .. N /\ N - j + 1 = N + 1 - j /\ N + 1 - (j + 1) = N - j
    OBVIOUS
  <2> QED
    BY <1>1, <2>1
<1>2. 0 \in U
  OBVIOUS
<1> HIDE DEF U
<1>3. \A j \in 0 .. N : j \in U
  BY <1>1, <1>2, Induction
<1>4. ASSUME NEW k \in 1 .. N + 1 PROVE k \in T
  <2>1. N + 1 - k \in 0 .. N /\ N + 1 - (N + 1 - k) = k
    OBVIOUS
  <2> QED
    BY <1>3, <2>1 DEF U
<1> QED
  BY <1>4

LEMMA RecursionDown ==
  ASSUME NEW a \in Int, NEW N \in Nat, NEW G \in [1 .. N -> [Int -> Int]]
  PROVE  \E e \in [1 .. N + 1 -> Int] :
           /\ e[N + 1] = a
           /\ \A k \in 1 .. N : e[k] = G[k][e[k + 1]]
<1> DEFINE H == [j \in 1 .. N |-> G[N + 1 - j]]
<1>1. PICK f \in [0 .. N -> Int] :
        f[0] = a /\ \A j \in 1 .. N : f[j] = H[j][f[j - 1]]
  <2>1. H \in [1 .. N -> [Int -> Int]]
    OBVIOUS
  <2> HIDE DEF H
  <2> QED
    BY <2>1, Recursion
<1> DEFINE e == [k \in 1 .. N + 1 |-> f[N + 1 - k]]
<1>2. e \in [1 .. N + 1 -> Int] /\ e[N + 1] = a
  BY <1>1
<1>3. ASSUME NEW k \in 1 .. N PROVE e[k] = G[k][e[k + 1]]
  <2>1. /\ N + 1 - k \in 1 .. N /\ N + 1 - k - 1 = N + 1 - (k + 1)
        /\ N + 1 - (N + 1 - k) = k
        /\ k \in 1 .. N + 1 /\ k + 1 \in 1 .. N + 1
    OBVIOUS
  <2>2. f[N + 1 - k] = G[k][f[N + 1 - k - 1]]
    BY <1>1, <2>1
  <2> QED
    BY <2>1, <2>2
<1> HIDE DEF e
<1> QED
  BY <1>2, <1>3

-----------------------------------------------------------------------------
(* The recursive functions of TensorDescriptor, by their equations. *)

LEMMA ExtentUnfolds ==
  ASSUME NEW shape \in Seq(Int)
  PROVE  \E n \in [0 .. Len(shape) -> Int] :
           /\ n[0] = 1
           /\ \A k \in 1 .. Len(shape) : n[k] = n[k - 1] * shape[k]
           /\ Extent(shape) = n[Len(shape)]
<1> DEFINE N == Len(shape)
           Step(k, i) == i * shape[k]
           Def(n) == [k \in 0 .. N |-> IF k = 0 THEN 1 ELSE Step(k, n[k - 1])]
           G == [k \in 1 .. N |-> [i \in Int |-> Step(k, i)]]
           h == CHOOSE h : h = Def(h)
<1>1. N \in Nat /\ \A k \in 1 .. N, i \in Int : Step(k, i) \in Int
  OBVIOUS
<1>2. Extent(shape) = h[N]
  BY DEF Extent
<1> HIDE DEF N, Step
<1>3. PICK f \in [0 .. N -> Int] :
        f[0] = 1 /\ \A k \in 1 .. N : f[k] = G[k][f[k - 1]]
  <2>1. G \in [1 .. N -> [Int -> Int]] /\ 1 \in Int
    BY <1>1
  <2> HIDE DEF G
  <2> QED
    BY <1>1, <2>1, Recursion
<1>4. ASSUME NEW k \in 1 .. N PROVE f[k] = Step(k, f[k - 1])
  <2>1. f[k - 1] \in Int
    BY <1>1
  <2> QED
    BY <1>3, <2>1
<1>5. f = Def(f)
  BY <1>3, <1>4
<1>6. h = Def(h)
  BY <1>5
<1> HIDE DEF h
<1>7. DOMAIN h = 0 .. N /\ h[0] = 1
  BY <1>1, <1>6
<1>8. ASSUME NEW k \in 1 .. N PROVE h[k] = Step(k, h[k - 1])
  <2>1. k \in 0 .. N /\ k # 0
    BY <1>1
  <2> QED
    BY <1>6, <2>1
<1>9. h \in [0 .. N -> Int]
  <2>1. \A k \in 1 .. N : h[k - 1] \in Int => h[k] \in Int
    BY <1>1, <1>8
  <2>2. h[0] \in Int
    BY <1>7
  <2>3. \A k \in 0 .. N : h[k] \in Int
    BY <1>1, <2>1, <2>2, Integral
  <2> QED
    BY <1>6, <2>3
<1> QED
  BY <1>2, <1>7, <1>8, <1>9 DEF N, Step

LEMMA NumelUnfolds ==
  ASSUME NEW shape \in Seq(Int)
  PROVE  \E n \in [0 .. Len(shape) -> Int] :
           /\ n[0] = 1
           /\ \A k \in 1 .. Len(shape) : n[k] = NumelStep(n[k - 1], shape[k])
           /\ descriptor_numel(shape) = n[Len(shape)]
<1> DEFINE N == Len(shape)
           Step(k, i) == NumelStep(i, shape[k])
           Def(n) == [k \in 0 .. N |-> IF k = 0 THEN 1 ELSE Step(k, n[k - 1])]
           G == [k \in 1 .. N |-> [i \in Int |-> Step(k, i)]]
           h == CHOOSE h : h = Def(h)
<1>1. N \in Nat /\ \A k \in 1 .. N, i \in Int : Step(k, i) \in Int
  BY WordsAssumption DEF NumelStep, Overflow, SizeMax
<1>2. descriptor_numel(shape) = h[N]
  BY DEF descriptor_numel
<1> HIDE DEF N, Step
<1>3. PICK f \in [0 .. N -> Int] :
        f[0] = 1 /\ \A k \in 1 .. N : f[k] = G[k][f[k - 1]]
  <2>1. G \in [1 .. N -> [Int -> Int]] /\ 1 \in Int
    BY <1>1
  <2> HIDE DEF G
  <2> QED
    BY <1>1, <2>1, Recursion
<1>4. ASSUME NEW k \in 1 .. N PROVE f[k] = Step(k, f[k - 1])
  <2>1. f[k - 1] \in Int
    BY <1>1
  <2> QED
    BY <1>3, <2>1
<1>5. f = Def(f)
  BY <1>3, <1>4
<1>6. h = Def(h)
  BY <1>5
<1> HIDE DEF h
<1>7. DOMAIN h = 0 .. N /\ h[0] = 1
  BY <1>1, <1>6
<1>8. ASSUME NEW k \in 1 .. N PROVE h[k] = Step(k, h[k - 1])
  <2>1. k \in 0 .. N /\ k # 0
    BY <1>1
  <2> QED
    BY <1>6, <2>1
<1>9. h \in [0 .. N -> Int]
  <2>1. \A k \in 1 .. N : h[k - 1] \in Int => h[k] \in Int
    BY <1>1, <1>8
  <2>2. h[0] \in Int
    BY <1>7
  <2>3. \A k \in 0 .. N : h[k] \in Int
    BY <1>1, <2>1, <2>2, Integral
  <2> QED
    BY <1>6, <2>3
<1> QED
  BY <1>2, <1>7, <1>8, <1>9 DEF N, Step

LEMMA OffsetUnfolds ==
  ASSUME NEW ix \in Seq(Int), NEW strides \in Seq(Int), Len(strides) >= Len(ix)
  PROVE  \E n \in [0 .. Len(ix) -> Int] :
           /\ n[0] = 0
           /\ \A k \in 1 .. Len(ix) : n[k] = n[k - 1] + ix[k] * strides[k]
           /\ Offset(ix, strides) = n[Len(ix)]
<1> DEFINE N == Len(ix)
           Step(k, i) == i + ix[k] * strides[k]
           Def(n) == [k \in 0 .. N |-> IF k = 0 THEN 0 ELSE Step(k, n[k - 1])]
           G == [k \in 1 .. N |-> [i \in Int |-> Step(k, i)]]
           h == CHOOSE h : h = Def(h)
<1>1. N \in Nat /\ \A k \in 1 .. N, i \in Int : Step(k, i) \in Int
  OBVIOUS
<1>2. Offset(ix, strides) = h[N]
  BY DEF Offset
<1> HIDE DEF N, Step
<1>3. PICK f \in [0 .. N -> Int] :
        f[0] = 0 /\ \A k \in 1 .. N : f[k] = G[k][f[k - 1]]
  <2>1. G \in [1 .. N -> [Int -> Int]] /\ 0 \in Int
    BY <1>1
  <2> HIDE DEF G
  <2> QED
    BY <1>1, <2>1, Recursion
<1>4. ASSUME NEW k \in 1 .. N PROVE f[k] = Step(k, f[k - 1])
  <2>1. f[k - 1] \in Int
    BY <1>1
  <2> QED
    BY <1>3, <2>1
<1>5. f = Def(f)
  BY <1>3, <1>4
<1>6. h = Def(h)
  BY <1>5
<1> HIDE DEF h
<1>7. DOMAIN h = 0 .. N /\ h[0] = 0
  BY <1>1, <1>6
<1>8. ASSUME NEW k \in 1 .. N PROVE h[k] = Step(k, h[k - 1])
  <2>1. k \in 0 .. N /\ k # 0
    BY <1>1
  <2> QED
    BY <1>6, <2>1
<1>9. h \in [0 .. N -> Int]
  <2>1. \A k \in 1 .. N : h[k - 1] \in Int => h[k] \in Int
    BY <1>1, <1>8
  <2>2. h[0] \in Int
    BY <1>7
  <2>3. \A k \in 0 .. N : h[k] \in Int
    BY <1>1, <2>1, <2>2, Integral
  <2> QED
    BY <1>6, <2>3
<1> QED
  BY <1>2, <1>7, <1>8, <1>9 DEF N, Step

LEMMA RowMajorUnfolds ==
  ASSUME NEW shape \in Seq(Int), NEW ix \in Seq(Int), Len(ix) = Len(shape)
  PROVE  \E n \in [0 .. Len(shape) -> Int] :
           /\ n[0] = 0
           /\ \A k \in 1 .. Len(shape) : n[k] = n[k - 1] * shape[k] + ix[k]
           /\ RowMajor(ix, shape) = n[Len(shape)]
<1> DEFINE N == Len(shape)
           Step(k, i) == i * shape[k] + ix[k]
           Def(n) == [k \in 0 .. N |-> IF k = 0 THEN 0 ELSE Step(k, n[k - 1])]
           G == [k \in 1 .. N |-> [i \in Int |-> Step(k, i)]]
           h == CHOOSE h : h = Def(h)
<1>1. N \in Nat /\ \A k \in 1 .. N, i \in Int : Step(k, i) \in Int
  OBVIOUS
<1>2. RowMajor(ix, shape) = h[N]
  BY DEF RowMajor
<1> HIDE DEF N, Step
<1>3. PICK f \in [0 .. N -> Int] :
        f[0] = 0 /\ \A k \in 1 .. N : f[k] = G[k][f[k - 1]]
  <2>1. G \in [1 .. N -> [Int -> Int]] /\ 0 \in Int
    BY <1>1
  <2> HIDE DEF G
  <2> QED
    BY <1>1, <2>1, Recursion
<1>4. ASSUME NEW k \in 1 .. N PROVE f[k] = Step(k, f[k - 1])
  <2>1. f[k - 1] \in Int
    BY <1>1
  <2> QED
    BY <1>3, <2>1
<1>5. f = Def(f)
  BY <1>3, <1>4
<1>6. h = Def(h)
  BY <1>5
<1> HIDE DEF h
<1>7. DOMAIN h = 0 .. N /\ h[0] = 0
  BY <1>1, <1>6
<1>8. ASSUME NEW k \in 1 .. N PROVE h[k] = Step(k, h[k - 1])
  <2>1. k \in 0 .. N /\ k # 0
    BY <1>1
  <2> QED
    BY <1>6, <2>1
<1>9. h \in [0 .. N -> Int]
  <2>1. \A k \in 1 .. N : h[k - 1] \in Int => h[k] \in Int
    BY <1>1, <1>8
  <2>2. h[0] \in Int
    BY <1>7
  <2>3. \A k \in 0 .. N : h[k] \in Int
    BY <1>1, <2>1, <2>2, Integral
  <2> QED
    BY <1>6, <2>3
<1> QED
  BY <1>2, <1>7, <1>8, <1>9 DEF N, Step

LEMMA ContiguousUnfolds ==
  ASSUME NEW d, d.shape \in Seq(Int), d.strides \in Seq(Int),
         Len(d.strides) = Len(d.shape)
  PROVE  \E e \in [1 .. Len(d.shape) + 1 -> Int] :
           /\ e[Len(d.shape) + 1] = 1
           /\ \A k \in 1 .. Len(d.shape) :
                e[k] = ContiguousStep(e[k + 1], d.shape[k], d.strides[k])
           /\ descriptor_is_contiguous(d) <=> e[1] # NotDense
<1> DEFINE N == Len(d.shape)
           Step(k, i) == ContiguousStep(i, d.shape[k], d.strides[k])
           Def(e) == [k \in 1 .. N + 1 |-> IF k = N + 1 THEN 1 ELSE Step(k, e[k + 1])]
           G == [k \in 1 .. N |-> [i \in Int |-> Step(k, i)]]
           h == CHOOSE h : h = Def(h)
<1>1. N \in Nat /\ \A k \in 1 .. N, i \in Int : Step(k, i) \in Int
  BY DEF ContiguousStep, NotDense
<1>2. descriptor_is_contiguous(d) <=> h[1] # NotDense
  BY DEF descriptor_is_contiguous
<1> HIDE DEF N, Step
<1>3. PICK f \in [1 .. N + 1 -> Int] :
        f[N + 1] = 1 /\ \A k \in 1 .. N : f[k] = G[k][f[k + 1]]
  <2>1. G \in [1 .. N -> [Int -> Int]] /\ 1 \in Int
    BY <1>1
  <2> HIDE DEF G
  <2> QED
    BY <1>1, <2>1, RecursionDown
<1>4. ASSUME NEW k \in 1 .. N PROVE f[k] = Step(k, f[k + 1])
  <2>1. f[k + 1] \in Int
    BY <1>1
  <2> QED
    BY <1>3, <2>1
<1>5. f = Def(f)
  BY <1>1, <1>3, <1>4
<1>6. h = Def(h)
  BY <1>5
<1> HIDE DEF h
<1>7. DOMAIN h = 1 .. N + 1 /\ h[N + 1] = 1
  BY <1>1, <1>6
<1>8. ASSUME NEW k \in 1 .. N PROVE h[k] = Step(k, h[k + 1])
  <2>1. k \in 1 .. N + 1 /\ k # N + 1
    BY <1>1
  <2> QED
    BY <1>6, <2>1
<1>9. h \in [1 .. N + 1 -> Int]
  <2> DEFINE T == {k \in 1 .. N + 1 : h[k] \in Int}
  <2>1. ASSUME NEW k \in 1 .. N, k + 1 \in T PROVE k \in T
    <3>1. k \in 1 .. N + 1 /\ h[k + 1] \in Int
      BY <1>1, <2>1
    <3> QED
      BY <1>1, <1>8, <3>1
  <2>2. N + 1 \in T
    BY <1>1, <1>7
  <2> HIDE DEF T
  <2>3. \A k \in 1 .. N + 1 : k \in T
    BY <1>1, <2>1, <2>2, InductionDown
  <2> QED
    BY <1>6, <2>3 DEF T
<1> QED
  BY <1>2, <1>7, <1>8, <1>9 DEF N, Step

LEMMA Reorder ==
  \A a, b, c \in Int : (a * b) * c = a * (c * b)
OBVIOUS

(* The number of elements a step along each dimension passes over. *)
SuffixProduct(s, shape) ==
  /\ s \in [1 .. Len(shape) + 1 -> Int]
  /\ s[Len(shape) + 1] = 1
  /\ \A k \in 1 .. Len(shape) : s[k] = s[k + 1] * shape[k]
  /\ s[1] = Extent(shape)

LEMMA SuffixProducts ==
  ASSUME NEW shape \in Seq(Int)
  PROVE  \E s : SuffixProduct(s, shape)
<1> DEFINE N == Len(shape)
           G == [k \in 1 .. N |-> [i \in Int |-> i * shape[k]]]
<1>1. N \in Nat /\ 1 \in Int /\ \A k \in 1 .. N : shape[k] \in Int
  OBVIOUS
<1> HIDE DEF N
<1>2. G \in [1 .. N -> [Int -> Int]]
  BY <1>1
<1>3. PICK s \in [1 .. N + 1 -> Int] :
        s[N + 1] = 1 /\ \A k \in 1 .. N : s[k] = G[k][s[k + 1]]
  <2> HIDE DEF G
  <2> QED
    BY <1>1, <1>2, RecursionDown
<1>4. ASSUME NEW k \in 1 .. N PROVE s[k] = s[k + 1] * shape[k]
  <2>1. s[k + 1] \in Int
    BY <1>1
  <2> QED
    BY <1>3, <2>1
<1>5. PICK n \in [0 .. N -> Int] :
        /\ n[0] = 1
        /\ \A k \in 1 .. N : n[k] = n[k - 1] * shape[k]
        /\ Extent(shape) = n[N]
  BY ExtentUnfolds DEF N
<1>6. \A k \in 0 .. N : n[k] * s[k + 1] = s[1]
  <2> DEFINE T == {k \in 0 .. N : n[k] * s[k + 1] = s[1]}
  <2>1. ASSUME NEW k \in 0 .. N - 1, k \in T PROVE k + 1 \in T
    <3>1. /\ n[k + 1] = n[k] * shape[k + 1]
          /\ s[k + 1] = s[k + 1 + 1] * shape[k + 1]
      <4>1. k + 1 \in 1 .. N /\ k + 1 - 1 = k
        BY <1>1
      <4> QED
        BY <1>4, <1>5, <4>1
    <3>2. n[k] \in Int /\ shape[k + 1] \in Int /\ s[k + 1 + 1] \in Int
      BY <1>1
    <3>3. n[k + 1] * s[k + 1 + 1] = n[k] * s[k + 1]
      BY <3>1, <3>2, Reorder
    <3> QED
      BY <1>1, <2>1, <3>3
  <2>2. 0 \in T
    <3>1. s[1] \in Int /\ 1 * s[1] = s[1]
      BY <1>1
    <3> QED
      BY <1>1, <1>5, <3>1
  <2> HIDE DEF T
  <2>3. \A k \in 0 .. N : k \in T
    BY <1>1, <2>1, <2>2, Induction
  <2> QED
    BY <2>3 DEF T
<1>7. s[1] = Extent(shape)
  <2>1. n[N] * s[N + 1] = s[1] /\ n[N] \in Int
    BY <1>1, <1>6
  <2> QED
    BY <1>3, <1>5, <2>1
<1> QED
  BY <1>3, <1>4, <1>7 DEF N, SuffixProduct

Positive(shape) == \A k \in DOMAIN shape : shape[k] >= 1

LEMMA Grows ==
  \A a, b \in Int : a >= 1 /\ b >= 1 => a * b >= a /\ a * b >= b
OBVIOUS

LEMMA SuffixesShrink ==
  ASSUME NEW shape \in Seq(Int), NEW s, SuffixProduct(s, shape), Positive(shape)
  PROVE  \A k \in 1 .. Len(shape) + 1 : s[k] \in 1 .. s[1]
<1> DEFINE N == Len(shape)
           T == {k \in 1 .. N + 1 : s[k] >= 1}
           U == {k \in 0 .. N : s[k + 1] <= s[1]}
<1>1. /\ N \in Nat
      /\ \A k \in 1 .. N + 1 : s[k] \in Int
      /\ \A k \in 1 .. N : /\ shape[k] \in Int /\ shape[k] >= 1
                           /\ s[k] = s[k + 1] * shape[k]
      /\ s[N + 1] = 1
  BY DEF SuffixProduct, Positive
<1> HIDE DEF N
<1>2. \A k \in 1 .. N + 1 : k \in T
  <2>1. ASSUME NEW k \in 1 .. N, k + 1 \in T PROVE k \in T
    <3>1. s[k + 1] \in Int /\ s[k] \in Int /\ k \in 1 .. N + 1
      BY <1>1
    <3> QED
      BY <1>1, <2>1, <3>1, Grows
  <2>2. N + 1 \in T
    BY <1>1
  <2> HIDE DEF T
  <2> QED
    BY <1>1, <2>1, <2>2, InductionDown
<1>3. \A k \in 0 .. N : k \in U
  <2>1. ASSUME NEW k \in 0 .. N - 1, k \in U PROVE k + 1 \in U
    <3>1. k + 1 \in 1 .. N /\ k + 1 \in 0 .. N /\ k + 1 + 1 \in 1 .. N + 1 /\ 1 \in 1 .. N + 1
      BY <1>1
    <3>2. s[k + 1 + 1] \in Int /\ s[k + 1] \in Int /\ s[1] \in Int
          /\ s[k + 1 + 1] >= 1
      BY <1>1, <1>2, <3>1
    <3>3. s[k + 1] >= s[k + 1 + 1]
      BY <1>1, <3>1, <3>2, Grows
    <3> QED
      BY <2>1, <3>1, <3>2, <3>3
  <2>2. 0 \in U
    BY <1>1
  <2> HIDE DEF U
  <2> QED
    BY <1>1, <2>1, <2>2, Induction
<1>4. ASSUME NEW k \in 1 .. N + 1 PROVE s[k] \in 1 .. s[1]
  <2>1. k - 1 \in 0 .. N /\ k - 1 + 1 = k /\ s[k] \in Int /\ 1 \in 1 .. N + 1
    BY <1>1
  <2>2. s[k] <= s[1] /\ s[k] >= 1 /\ s[1] \in Int
    BY <1>1, <1>2, <1>3, <2>1
  <2> QED
    BY <2>1, <2>2
<1> QED
  BY <1>4 DEF N

-----------------------------------------------------------------------------
(* Offsets. *)

LEMMA Distribute ==
  \A p, z, i, s \in Int : (p * z + i) * s = p * (s * z) + i * s
OBVIOUS

(* Row-major order is what the suffix products are the strides of. *)
LEMMA RowMajorStrides ==
  ASSUME NEW shape \in Seq(Int), NEW ix \in Seq(Int), Len(ix) = Len(shape),
         NEW s, SuffixProduct(s, shape)
  PROVE  RowMajor(ix, shape) = Offset(ix, [k \in 1 .. Len(shape) |-> s[k + 1]])
<1> DEFINE N == Len(shape)
           c == [k \in 1 .. N |-> s[k + 1]]
<1>1. /\ N \in Nat /\ Len(ix) = N
      /\ \A k \in 1 .. N : shape[k] \in Int /\ ix[k] \in Int
      /\ \A k \in 1 .. N + 1 : s[k] \in Int
      /\ \A k \in 1 .. N : s[k] = s[k + 1] * shape[k]
      /\ s[N + 1] = 1
  <2>1. N \in Nat /\ \A k \in 1 .. N : shape[k] \in Int /\ ix[k] \in Int
    OBVIOUS
  <2>2. \A k \in 1 .. N + 1 : s[k] \in Int
    BY DEF SuffixProduct
  <2> QED
    BY <2>1, <2>2 DEF SuffixProduct
<1>2. c \in Seq(Int) /\ Len(c) = N /\ \A k \in 1 .. N : c[k] = s[k + 1]
  <2>1. c \in [1 .. N -> Int]
    BY <1>1
  <2> QED
    BY <1>1, <2>1
<1>3. PICK p \in [0 .. N -> Int] :
        /\ p[0] = 0
        /\ \A k \in 1 .. N : p[k] = p[k - 1] * shape[k] + ix[k]
        /\ RowMajor(ix, shape) = p[N]
  BY RowMajorUnfolds
<1> HIDE DEF c
<1>4. PICK o \in [0 .. N -> Int] :
        /\ o[0] = 0
        /\ \A k \in 1 .. N : o[k] = o[k - 1] + ix[k] * c[k]
        /\ Offset(ix, c) = o[N]
  <2>1. Len(c) >= Len(ix)
    BY <1>1, <1>2
  <2>2. \E o \in [0 .. Len(ix) -> Int] :
          /\ o[0] = 0
          /\ \A k \in 1 .. Len(ix) : o[k] = o[k - 1] + ix[k] * c[k]
          /\ Offset(ix, c) = o[Len(ix)]
    BY <1>2, <2>1, OffsetUnfolds
  <2> QED
    BY <1>1, <2>2
<1> HIDE DEF N
<1>5. \A k \in 0 .. N : p[k] * s[k + 1] = o[k]
  <2> DEFINE T == {k \in 0 .. N : p[k] * s[k + 1] = o[k]}
  <2>1. ASSUME NEW k \in 0 .. N - 1, k \in T PROVE k + 1 \in T
    <3>1. k + 1 \in 1 .. N /\ k + 1 - 1 = k /\ k + 1 + 1 \in 1 .. N + 1
          /\ k + 1 \in 0 .. N /\ k \in 0 .. N
      BY <1>1
    <3>2. /\ p[k + 1] = p[k] * shape[k + 1] + ix[k + 1]
          /\ o[k + 1] = o[k] + ix[k + 1] * s[k + 1 + 1]
          /\ s[k + 1] = s[k + 1 + 1] * shape[k + 1]
      <4>1. p[k + 1] = p[k + 1 - 1] * shape[k + 1] + ix[k + 1]
        BY <1>3, <3>1
      <4>2. o[k + 1] = o[k + 1 - 1] + ix[k + 1] * c[k + 1]
        BY <1>4, <3>1
      <4>3. c[k + 1] = s[k + 1 + 1] /\ s[k + 1] = s[k + 1 + 1] * shape[k + 1]
        BY <1>1, <1>2, <3>1, Zenon
      <4> QED
        BY <3>1, <4>1, <4>2, <4>3
    <3>3. p[k] \in Int /\ shape[k + 1] \in Int /\ ix[k + 1] \in Int
          /\ s[k + 1 + 1] \in Int
      BY <1>1, <3>1
    <3>4. p[k + 1] * s[k + 1 + 1] = p[k] * s[k + 1] + ix[k + 1] * s[k + 1 + 1]
      <4>1. (p[k] * shape[k + 1] + ix[k + 1]) * s[k + 1 + 1]
              = p[k] * (s[k + 1 + 1] * shape[k + 1])
                  + ix[k + 1] * s[k + 1 + 1]
        <5>1. \A i, z \in Int : (p[k] * shape[k + 1] + i) * z
                                = p[k] * (z * shape[k + 1]) + i * z
          BY <3>3, Distribute, Zenon
        <5> QED
          BY <3>3, <5>1, Zenon
      <4> QED
        BY <3>2, <4>1, Zenon
    <3>5. p[k + 1] * s[k + 1 + 1] = o[k + 1]
      <4>1. p[k] * s[k + 1] = o[k]
        BY <2>1
      <4> QED
        BY <3>2, <3>4, <4>1, Zenon
    <3> QED
      BY <3>1, <3>5
  <2>2. 0 \in T
    <3>1. s[1] \in Int /\ 0 * s[1] = 0
      BY <1>1
    <3> QED
      BY <1>1, <1>3, <1>4, <3>1
  <2> HIDE DEF T
  <2>3. \A k \in 0 .. N : k \in T
    BY <1>1, <2>1, <2>2, Induction
  <2> QED
    BY <2>3 DEF T
<1>6. p[N] = o[N]
  <2>1. p[N] * s[N + 1] = o[N] /\ p[N] \in Int
    BY <1>1, <1>5
  <2> QED
    BY <1>1, <2>1
<1> QED
  BY <1>3, <1>4, <1>6 DEF N, c

(* Strides matter where the index is not 0. *)
LEMMA OffsetsAgree ==
  ASSUME NEW ix \in Seq(Int), NEW a \in Seq(Int), NEW b \in Seq(Int),
         Len(a) = Len(ix), Len(b) = Len(ix),
         \A k \in 1 .. Len(ix) : ix[k] = 0 \/ a[k] = b[k]
  PROVE  Offset(ix, a) = Offset(ix, b)
<1> DEFINE N == Len(ix)
<1>1. PICK o \in [0 .. N -> Int] :
        /\ o[0] = 0
        /\ \A k \in 1 .. N : o[k] = o[k - 1] + ix[k] * a[k]
        /\ Offset(ix, a) = o[N]
  <2>1. Len(a) >= Len(ix)
    OBVIOUS
  <2> QED
    BY <2>1, OffsetUnfolds
<1>2. PICK p \in [0 .. N -> Int] :
        /\ p[0] = 0
        /\ \A k \in 1 .. N : p[k] = p[k - 1] + ix[k] * b[k]
        /\ Offset(ix, b) = p[N]
  <2>1. Len(b) >= Len(ix)
    OBVIOUS
  <2> QED
    BY <2>1, OffsetUnfolds
<1>3. N \in Nat /\ \A k \in 1 .. N : ix[k] * a[k] = ix[k] * b[k]
  <2>1. \A k \in 1 .. N : a[k] \in Int /\ b[k] \in Int
    OBVIOUS
  <2>2. \A i \in Int : 0 * i = 0
    OBVIOUS
  <2>3. ASSUME NEW k \in 1 .. N PROVE ix[k] * a[k] = ix[k] * b[k]
    <3>1. CASE ix[k] = 0
      BY <2>1, <2>2, <3>1
    <3> QED
      BY <3>1
  <2> QED
    BY <2>3
<1> HIDE DEF N
<1> DEFINE T == {k \in 0 .. N : o[k] = p[k]}
<1>4. ASSUME NEW k \in 0 .. N - 1, k \in T PROVE k + 1 \in T
  <2>1. k + 1 \in 1 .. N /\ k + 1 - 1 = k /\ k + 1 \in 0 .. N
    BY <1>3
  <2> QED
    BY <1>1, <1>2, <1>3, <1>4, <2>1
<1>5. 0 \in T
  BY <1>1, <1>2, <1>3
<1> HIDE DEF T
<1>6. \A k \in 0 .. N : k \in T
  BY <1>3, <1>4, <1>5, Induction
<1>7. o[N] = p[N]
  BY <1>3, <1>6 DEF T
<1> QED
  BY <1>1, <1>2, <1>7

LEMMA OffsetOfUnit ==
  ASSUME NEW ix \in Seq(Int), NEW a \in Seq(Int), Len(a) = Len(ix),
         NEW m \in 1 .. Len(ix),
         \A k \in 1 .. Len(ix) : ix[k] = IF k = m THEN 1 ELSE 0
  PROVE  Offset(ix, a) = a[m]
<1> DEFINE N == Len(ix)
<1>1. PICK o \in [0 .. N -> Int] :
        /\ o[0] = 0
        /\ \A k \in 1 .. N : o[k] = o[k - 1] + ix[k] * a[k]
        /\ Offset(ix, a) = o[N]
  <2>1. Len(a) >= Len(ix)
    OBVIOUS
  <2> QED
    BY <2>1, OffsetUnfolds
<1>2. /\ N \in Nat /\ m \in 1 .. N
      /\ \A k \in 1 .. N : a[k] \in Int /\ ix[k] = IF k = m THEN 1 ELSE 0
  OBVIOUS
<1> HIDE DEF N
<1> DEFINE T == {k \in 0 .. N : o[k] = IF k < m THEN 0 ELSE a[m]}
<1>3. ASSUME NEW k \in 0 .. N - 1, k \in T PROVE k + 1 \in T
  <2>1. k + 1 \in 1 .. N /\ k + 1 - 1 = k /\ k + 1 \in 0 .. N
    BY <1>2
  <2>2. o[k + 1] = o[k] + ix[k + 1] * a[k + 1] /\ a[k + 1] \in Int /\ a[m] \in Int
    <3>1. o[k + 1] = o[k + 1 - 1] + ix[k + 1] * a[k + 1]
      BY <1>1, <2>1
    <3>2. a[k + 1] \in Int /\ a[m] \in Int
      BY <1>2, <2>1
    <3> QED
      BY <2>1, <3>1, <3>2
  <2>3. o[k] = IF k < m THEN 0 ELSE a[m]
    BY <1>3
  <2>4. 0 * a[k + 1] = 0 /\ 1 * a[k + 1] = a[k + 1]
    BY <2>2
  <2>5. CASE k + 1 = m
    <3>1. o[k + 1] = a[m]
      BY <1>2, <2>1, <2>2, <2>3, <2>4, <2>5
    <3> QED
      BY <2>1, <2>5, <3>1
  <2>6. CASE k + 1 # m
    <3>1. o[k + 1] = o[k]
      <4>1. o[k] \in Int /\ ix[k + 1] = 0
        BY <1>2, <2>1, <2>6
      <4> QED
        BY <2>2, <2>4, <4>1
    <3>2. k + 1 < m <=> k < m
      BY <1>2, <2>6
    <3> QED
      BY <2>1, <2>3, <3>1, <3>2
  <2> QED
    BY <2>5, <2>6
<1>4. 0 \in T
  BY <1>1, <1>2
<1> HIDE DEF T
<1>5. \A k \in 0 .. N : k \in T
  BY <1>2, <1>3, <1>4, Induction
<1>6. o[N] = a[m]
  BY <1>2, <1>5 DEF T
<1> QED
  BY <1>1, <1>6

LEMMA Vector ==
  ASSUME NEW N \in Nat, NEW v \in [1 .. N -> Int]
  PROVE  v \in Seq(Int) /\ Len(v) = N
OBVIOUS

(* A dimension of size one may have any stride. *)
DenseStride(s, shape, strides, k) == shape[k] = 1 \/ strides[k] = s[k + 1]

LEMMA DenseStrides ==
  ASSUME NEW shape \in Seq(Int), NEW strides \in Seq(Int),
         Len(strides) = Len(shape), Positive(shape),
         NEW s, SuffixProduct(s, shape)
  PROVE  Dense(shape, strides) <=>
           \A k \in 1 .. Len(shape) : DenseStride(s, shape, strides, k)
<1> DEFINE N == Len(shape)
           c == [k \in 1 .. N |-> s[k + 1]]
<1>1. /\ N \in Nat /\ DOMAIN shape = 1 .. N
      /\ \A k \in 1 .. N : shape[k] \in Int /\ shape[k] >= 1
  BY DEF Positive
<1>2. /\ c \in Seq(Int) /\ Len(c) = N
      /\ \A k \in 1 .. N : c[k] = s[k + 1]
  <2>1. \A k \in 1 .. N : s[k + 1] \in Int
    <3>1. \A k \in 1 .. N : k + 1 \in 1 .. N + 1
      BY <1>1
    <3> QED
      BY <3>1 DEF SuffixProduct
  <2>2. c \in [1 .. N -> Int]
    BY <2>1
  <2> QED
    BY <1>1, <2>2
<1>3. ASSUME NEW ix \in Seq(Int), Len(ix) = N PROVE RowMajor(ix, shape) = Offset(ix, c)
  BY <1>3, RowMajorStrides
<1> HIDE DEF c
<1>4. ASSUME \A k \in 1 .. N : DenseStride(s, shape, strides, k),
             NEW ix \in Indexes(shape)
      PROVE  Offset(ix, strides) = RowMajor(ix, shape)
  <2>1. /\ ix \in Seq(Int) /\ Len(ix) = N
        /\ \A k \in 1 .. N : ix[k] \in Nat /\ ix[k] < shape[k]
    <3>1. ix \in [1 .. N -> Nat]
      BY <1>1 DEF Indexes
    <3>2. \A k \in 1 .. N : ix[k] < shape[k]
      BY <1>1 DEF Indexes
    <3>3. ix \in [1 .. N -> Int]
      BY <3>1
    <3>4. ix \in Seq(Int) /\ Len(ix) = N
      BY <1>1, <3>3, Vector
    <3> QED
      BY <3>1, <3>2, <3>4
  <2>2. \A k \in 1 .. N : ix[k] = 0 \/ strides[k] = c[k]
    BY <1>1, <1>2, <1>4, <2>1 DEF DenseStride
  <2>3. Offset(ix, strides) = Offset(ix, c)
    BY <1>2, <2>1, <2>2, OffsetsAgree
  <2> QED
    BY <1>3, <2>1, <2>3
<1>5. ASSUME Dense(shape, strides), NEW m \in 1 .. N, shape[m] # 1
      PROVE  strides[m] = s[m + 1]
  <2> DEFINE ix == [k \in 1 .. N |-> IF k = m THEN 1 ELSE 0]
  <2>1. ix \in [1 .. N -> Int] /\ \A k \in 1 .. N : ix[k] = IF k = m THEN 1 ELSE 0
    OBVIOUS
  <2>2. ix \in [1 .. N -> UNION {0 .. shape[k] - 1 : k \in 1 .. N}]
    <3>1. 0 \in 0 .. shape[m] - 1 /\ 1 \in 0 .. shape[m] - 1
      BY <1>1, <1>5
    <3> QED
      BY <3>1
  <2>3. \A k \in 1 .. N : ix[k] < shape[k]
    BY <1>1, <1>5
  <2> HIDE DEF ix
  <2>4. ix \in Indexes(shape)
    BY <1>1, <2>2, <2>3 DEF Indexes
  <2>5. ix \in Seq(Int) /\ Len(ix) = N
    BY <1>1, <2>1
  <2>6. Offset(ix, strides) = strides[m] /\ Offset(ix, c) = c[m]
    <3>1. \A k \in 1 .. Len(ix) : ix[k] = IF k = m THEN 1 ELSE 0
      BY <2>1, <2>5
    <3>2. m \in 1 .. Len(ix) /\ Len(strides) = Len(ix) /\ Len(c) = Len(ix)
      BY <1>2, <2>5
    <3> QED
      BY <1>2, <2>5, <3>1, <3>2, OffsetOfUnit
  <2>7. Offset(ix, strides) = RowMajor(ix, shape)
    BY <1>5, <2>4 DEF Dense
  <2> QED
    BY <1>2, <1>3, <2>5, <2>6, <2>7
<1> QED
  BY <1>4, <1>5 DEF Dense, DenseStride

-----------------------------------------------------------------------------
(* What descriptor_numel computes, unless it ends early. *)

LEMMA NumelIsExtent ==
  ASSUME NEW shape \in Seq(Int), descriptor_numel(shape) \notin {0, Overflow}
  PROVE  Positive(shape) /\ descriptor_numel(shape) = Extent(shape)
<1> DEFINE N == Len(shape)
<1>1. PICK n \in [0 .. N -> Int] :
        /\ n[0] = 1
        /\ \A k \in 1 .. N : n[k] = NumelStep(n[k - 1], shape[k])
        /\ descriptor_numel(shape) = n[N]
  BY NumelUnfolds
<1>2. PICK x \in [0 .. N -> Int] :
        /\ x[0] = 1
        /\ \A k \in 1 .. N : x[k] = x[k - 1] * shape[k]
        /\ Extent(shape) = x[N]
  BY ExtentUnfolds
<1>3. N \in Nat /\ DOMAIN shape = 1 .. N /\ \A k \in 1 .. N : shape[k] \in Int
  OBVIOUS
<1> HIDE DEF N
<1>4. \A k \in 1 .. N + 1 : n[k - 1] \notin {0, Overflow}
  <2> DEFINE T == {k \in 1 .. N + 1 : n[k - 1] \notin {0, Overflow}}
  <2>1. ASSUME NEW k \in 1 .. N, k + 1 \in T PROVE k \in T
    <3>1. k + 1 - 1 = k /\ k \in 1 .. N + 1
      BY <1>3
    <3>2. n[k] = NumelStep(n[k - 1], shape[k]) /\ n[k] \notin {0, Overflow}
      BY <1>1, <2>1, <3>1
    <3> QED
      BY <3>1, <3>2 DEF NumelStep
  <2>2. N + 1 \in T
    <3>1. N + 1 \in 1 .. N + 1 /\ N + 1 - 1 = N
      BY <1>3
    <3> QED
      BY <1>1, <1>3, <3>1
  <2> HIDE DEF T
  <2>3. \A k \in 1 .. N + 1 : k \in T
    BY <1>3, <2>1, <2>2, InductionDown
  <2> QED
    BY <2>3 DEF T
<1>5. ASSUME NEW k \in 1 .. N PROVE shape[k] >= 1 /\ n[k] = n[k - 1] * shape[k]
  <2>1. k \in 1 .. N + 1 /\ k + 1 \in 1 .. N + 1 /\ k + 1 - 1 = k
    BY <1>3
  <2>2. n[k - 1] \notin {0, Overflow} /\ n[k] \notin {0, Overflow}
    BY <1>4, <2>1
  <2>3. n[k] = NumelStep(n[k - 1], shape[k]) /\ shape[k] \in Int
    BY <1>1, <1>3
  <2>4. shape[k] >= 1
    BY <2>2, <2>3 DEF NumelStep
  <2> QED
    BY <2>2, <2>3, <2>4 DEF NumelStep
<1>6. \A k \in 0 .. N : n[k] = x[k]
  <2> DEFINE T == {k \in 0 .. N : n[k] = x[k]}
  <2>1. ASSUME NEW k \in 0 .. N - 1, k \in T PROVE k + 1 \in T
    <3>1. k + 1 \in 1 .. N /\ k + 1 - 1 = k /\ k + 1 \in 0 .. N
      BY <1>3
    <3>2. n[k + 1] = n[k] * shape[k + 1]
      BY <1>5, <3>1
    <3>3. x[k + 1] = x[k] * shape[k + 1]
      BY <1>2, <3>1
    <3> QED
      BY <2>1, <3>1, <3>2, <3>3
  <2>2. 0 \in T
    BY <1>1, <1>2, <1>3
  <2> HIDE DEF T
  <2>3. \A k \in 0 .. N : k \in T
    BY <1>3, <2>1, <2>2, Induction
  <2> QED
    BY <2>3 DEF T
<1>7. n[N] = x[N]
  BY <1>3, <1>6
<1> QED
  BY <1>1, <1>2, <1>3, <1>5, <1>7 DEF Positive

(* The test before the multiplication is exact. *)
LEMMA NoOverflow ==
  ASSUME NEW m \in Nat, NEW a \in Nat, NEW z \in Nat \ {0}, a * z <= m
  PROVE  ~ a > m \div z
<1>1. /\ m \div z \in Nat /\ m < (m \div z) * z + z
  BY Quotient
<1>2. SUFFICES ASSUME a >= m \div z + 1 PROVE FALSE
  BY <1>1
<1>3. a * z >= (m \div z + 1) * z
  <2> DEFINE q == m \div z + 1
  <2>1. q \in Nat /\ a >= q
    BY <1>1, <1>2
  <2> HIDE DEF q
  <2>2. a * z = q * z + (a - q) * z /\ (a - q) * z >= 0
    BY <2>1
  <2>3. a * z \in Int /\ q * z \in Int /\ (a - q) * z \in Int
    BY <2>1
  <2>4. a * z >= q * z
    BY <2>2, <2>3
  <2> QED
    BY <2>4 DEF q
<1>4. (m \div z + 1) * z = (m \div z) * z + z
  BY <1>1
<1>5. a * z \in Int /\ (m \div z) * z \in Int
  BY <1>1
<1> QED
  BY <1>1, <1>3, <1>4, <1>5

LEMMA NumelOfExtent ==
  ASSUME NEW shape \in Seq(Int), Positive(shape), Extent(shape) <= SizeMax
  PROVE  descriptor_numel(shape) = Extent(shape) /\ Extent(shape) >= 1
<1> DEFINE N == Len(shape)
<1>1. PICK n \in [0 .. N -> Int] :
        /\ n[0] = 1
        /\ \A k \in 1 .. N : n[k] = NumelStep(n[k - 1], shape[k])
        /\ descriptor_numel(shape) = n[N]
  BY NumelUnfolds
<1>2. PICK x \in [0 .. N -> Int] :
        /\ x[0] = 1
        /\ \A k \in 1 .. N : x[k] = x[k - 1] * shape[k]
        /\ Extent(shape) = x[N]
  BY ExtentUnfolds
<1>3. N \in Nat /\ \A k \in 1 .. N : shape[k] \in Int /\ shape[k] >= 1
  BY DEF Positive
<1> HIDE DEF N
<1>4. \A k \in 0 .. N : x[k] >= 1
  <2> DEFINE T == {k \in 0 .. N : x[k] >= 1}
  <2>1. ASSUME NEW k \in 0 .. N - 1, k \in T PROVE k + 1 \in T
    <3>1. k + 1 \in 1 .. N /\ k + 1 - 1 = k /\ k + 1 \in 0 .. N
      BY <1>3
    <3>2. x[k + 1] = x[k] * shape[k + 1] /\ x[k] >= 1
      BY <1>2, <2>1, <3>1
    <3>3. x[k] \in Int /\ shape[k + 1] \in Int /\ shape[k + 1] >= 1
      BY <1>3, <3>1
    <3> QED
      BY <3>1, <3>2, <3>3, Grows
  <2>2. 0 \in T
    BY <1>2, <1>3
  <2> HIDE DEF T
  <2>3. \A k \in 0 .. N : k \in T
    BY <1>3, <2>1, <2>2, Induction
  <2> QED
    BY <2>3 DEF T
<1>5. \A k \in 1 .. N + 1 : x[k - 1] <= x[N]
  <2> DEFINE T == {k \in 1 .. N + 1 : x[k - 1] <= x[N]}
  <2>1. ASSUME NEW k \in 1 .. N, k + 1 \in T PROVE k \in T
    <3>1. /\ k + 1 - 1 = k /\ k \in 1 .. N + 1
          /\ k - 1 \in 0 .. N /\ k \in 0 .. N /\ N \in 0 .. N
      BY <1>3
    <3>2. x[k] = x[k - 1] * shape[k] /\ x[k] <= x[N]
      BY <1>2, <2>1, <3>1
    <3>3. x[k - 1] \in Int /\ x[k - 1] >= 1 /\ shape[k] \in Int /\ shape[k] >= 1
          /\ x[k] \in Int /\ x[N] \in Int
      BY <1>3, <1>4, <3>1
    <3>4. x[k] >= x[k - 1]
      BY <3>2, <3>3, Grows
    <3> QED
      BY <3>1, <3>2, <3>3, <3>4
  <2>2. N + 1 \in T
    <3>1. N + 1 \in 1 .. N + 1 /\ N + 1 - 1 = N /\ x[N] <= x[N]
      BY <1>3
    <3> QED
      BY <1>3, <3>1
  <2> HIDE DEF T
  <2>3. \A k \in 1 .. N + 1 : k \in T
    BY <1>3, <2>1, <2>2, InductionDown
  <2> QED
    BY <2>3 DEF T
<1>6. \A k \in 0 .. N : n[k] = x[k]
  <2> DEFINE T == {k \in 0 .. N : n[k] = x[k]}
  <2>1. ASSUME NEW k \in 0 .. N - 1, k \in T PROVE k + 1 \in T
    <3>1. /\ k + 1 \in 1 .. N /\ k + 1 - 1 = k /\ k + 1 \in 0 .. N
          /\ k + 1 + 1 \in 1 .. N + 1 /\ k + 1 + 1 - 1 = k + 1
      BY <1>3
    <3>2. n[k + 1] = NumelStep(n[k], shape[k + 1]) /\ n[k] = x[k]
      BY <1>1, <2>1, <3>1
    <3>3. x[k + 1] = x[k] * shape[k + 1]
      BY <1>2, <3>1
    <3>4. x[k] \in Nat \ {0} /\ shape[k + 1] \in Nat \ {0}
      <4>1. k \in 0 .. N /\ shape[k + 1] \in Int /\ shape[k + 1] >= 1
        BY <1>3, <3>1
      <4>2. x[k] \in Int /\ x[k] >= 1
        BY <1>4, <4>1
      <4> QED
        BY <4>1, <4>2
    <3>5. x[k] * shape[k + 1] <= SizeMax
      <4>1. x[k + 1] <= x[N] /\ x[k + 1] \in Int /\ x[N] \in Int /\ SizeMax \in Int
        <5>1. x[k + 1 + 1 - 1] <= x[N]
          BY <1>5, <3>1
        <5>2. N \in 0 .. N
          BY <1>3
        <5>3. x[k + 1] \in Int /\ x[N] \in Int
          BY <3>1, <5>2
        <5> QED
          BY <3>1, <5>1, <5>3, Widths
      <4> QED
        BY <1>2, <3>3, <4>1
    <3>6. ~ x[k] > SizeMax \div shape[k + 1]
      <4>1. SizeMax \in Nat
        BY Widths
      <4> QED
        BY <3>4, <3>5, <4>1, NoOverflow
    <3>7. n[k + 1] = x[k] * shape[k + 1]
      BY <3>2, <3>4, <3>6 DEF NumelStep, Overflow
    <3> QED
      BY <3>1, <3>3, <3>7
  <2>2. 0 \in T
    BY <1>1, <1>2, <1>3
  <2> HIDE DEF T
  <2>3. \A k \in 0 .. N : k \in T
    BY <1>3, <2>1, <2>2, Induction
  <2> QED
    BY <2>3 DEF T
<1>7. n[N] = x[N] /\ x[N] >= 1
  BY <1>3, <1>4, <1>6
<1> QED
  BY <1>1, <1>2, <1>7

LEMMA ExtentPositive ==
  ASSUME NEW shape \in Seq(Nat), Extent(shape) # 0
  PROVE  Positive(shape)
<1> DEFINE N == Len(shape)
<1>1. shape \in Seq(Int)
  OBVIOUS
<1>2. PICK x \in [0 .. N -> Int] :
        /\ x[0] = 1
        /\ \A k \in 1 .. N : x[k] = x[k - 1] * shape[k]
        /\ Extent(shape) = x[N]
  BY <1>1, ExtentUnfolds
<1>3. N \in Nat /\ DOMAIN shape = 1 .. N /\ \A k \in 1 .. N : shape[k] \in Nat
  OBVIOUS
<1> HIDE DEF N
<1> DEFINE T == {k \in 1 .. N + 1 : x[k - 1] # 0}
<1>4. ASSUME NEW k \in 1 .. N, x[k] # 0 PROVE x[k - 1] # 0 /\ shape[k] # 0
  <2>1. x[k] = x[k - 1] * shape[k] /\ x[k - 1] \in Int /\ shape[k] \in Int
    BY <1>2, <1>3
  <2>2. \A i \in Int : 0 * i = 0 /\ i * 0 = 0
    OBVIOUS
  <2> QED
    BY <1>4, <2>1, <2>2
<1>5. \A k \in 1 .. N + 1 : k \in T
  <2>1. ASSUME NEW k \in 1 .. N, k + 1 \in T PROVE k \in T
    <3>1. k + 1 - 1 = k /\ k \in 1 .. N + 1
      BY <1>3
    <3> QED
      BY <1>4, <2>1, <3>1
  <2>2. N + 1 \in T
    <3>1. N + 1 \in 1 .. N + 1 /\ N + 1 - 1 = N
      BY <1>3
    <3> QED
      BY <1>2, <1>3, <3>1
  <2> HIDE DEF T
  <2> QED
    BY <1>3, <2>1, <2>2, InductionDown
<1>6. ASSUME NEW k \in 1 .. N PROVE shape[k] >= 1
  <2>1. k + 1 \in 1 .. N + 1 /\ k + 1 - 1 = k
    BY <1>3
  <2>2. x[k] # 0
    BY <1>5, <2>1
  <2>3. shape[k] # 0 /\ shape[k] \in Nat
    BY <1>3, <1>4, <2>2
  <2> QED
    BY <2>3
<1> QED
  BY <1>3, <1>6 DEF Positive

-----------------------------------------------------------------------------
(* What descriptor_is_contiguous tests. *)

LEMMA ContiguousHasDenseStrides ==
  ASSUME NEW d, d.shape \in Seq(Int), d.strides \in Seq(Int),
         Len(d.strides) = Len(d.shape),
         NEW s, SuffixProduct(s, d.shape), descriptor_is_contiguous(d)
  PROVE  \A k \in 1 .. Len(d.shape) : DenseStride(s, d.shape, d.strides, k)
<1> DEFINE N == Len(d.shape)
<1>1. PICK e \in [1 .. N + 1 -> Int] :
        /\ e[N + 1] = 1
        /\ \A k \in 1 .. N : e[k] = ContiguousStep(e[k + 1], d.shape[k], d.strides[k])
        /\ descriptor_is_contiguous(d) <=> e[1] # NotDense
  BY ContiguousUnfolds
<1>2. /\ N \in Nat /\ s[N + 1] = 1
      /\ \A k \in 1 .. N : s[k] = s[k + 1] * d.shape[k]
  BY DEF SuffixProduct
<1> HIDE DEF N
<1>3. ASSUME NEW k \in 1 .. N, e[k] # NotDense
      PROVE  /\ e[k + 1] # NotDense
             /\ d.shape[k] = 1 \/ d.strides[k] = e[k + 1]
             /\ e[k] = e[k + 1] * d.shape[k]
  <2>1. e[k] = ContiguousStep(e[k + 1], d.shape[k], d.strides[k])
    BY <1>1
  <2> QED
    BY <1>3, <2>1 DEF ContiguousStep
<1>4. \A k \in 0 .. N : e[k + 1] # NotDense
  <2> DEFINE T == {k \in 0 .. N : e[k + 1] # NotDense}
  <2>1. ASSUME NEW k \in 0 .. N - 1, k \in T PROVE k + 1 \in T
    <3>1. k + 1 \in 1 .. N /\ k + 1 \in 0 .. N
      BY <1>2
    <3> QED
      BY <1>3, <2>1, <3>1
  <2>2. 0 \in T
    BY <1>1, <1>2
  <2> HIDE DEF T
  <2>3. \A k \in 0 .. N : k \in T
    BY <1>2, <2>1, <2>2, Induction
  <2> QED
    BY <2>3 DEF T
<1>5. ASSUME NEW k \in 1 .. N PROVE e[k] # NotDense
  <2>1. k - 1 \in 0 .. N /\ k - 1 + 1 = k
    BY <1>2
  <2>2. e[k - 1 + 1] # NotDense
    BY <1>4, <2>1
  <2> QED
    BY <2>1, <2>2
<1>6. \A k \in 1 .. N + 1 : e[k] = s[k]
  <2> DEFINE T == {k \in 1 .. N + 1 : e[k] = s[k]}
  <2>1. ASSUME NEW k \in 1 .. N, k + 1 \in T PROVE k \in T
    <3>1. k \in 1 .. N + 1
      BY <1>2
    <3>2. e[k] = e[k + 1] * d.shape[k] /\ s[k] = s[k + 1] * d.shape[k]
      BY <1>2, <1>3, <1>5
    <3> QED
      BY <2>1, <3>1, <3>2
  <2>2. N + 1 \in T
    BY <1>1, <1>2
  <2> HIDE DEF T
  <2>3. \A k \in 1 .. N + 1 : k \in T
    BY <1>2, <2>1, <2>2, InductionDown
  <2> QED
    BY <2>3 DEF T
<1>7. ASSUME NEW k \in 1 .. N PROVE DenseStride(s, d.shape, d.strides, k)
  <2>1. k + 1 \in 1 .. N + 1
    BY <1>2
  <2> QED
    BY <1>3, <1>5, <1>6, <2>1 DEF DenseStride
<1> QED
  BY <1>7 DEF N

(* And it ends early for no other reason when the elements can be counted. *)
LEMMA DenseStridesAreContiguous ==
  ASSUME NEW d, d.shape \in Seq(Int), d.strides \in Seq(Int),
         Len(d.strides) = Len(d.shape), Positive(d.shape),
         NEW s, SuffixProduct(s, d.shape), s[1] <= Int64Max,
         \A k \in 1 .. Len(d.shape) : DenseStride(s, d.shape, d.strides, k)
  PROVE  descriptor_is_contiguous(d)
<1> DEFINE N == Len(d.shape)
<1>1. PICK e \in [1 .. N + 1 -> Int] :
        /\ e[N + 1] = 1
        /\ \A k \in 1 .. N : e[k] = ContiguousStep(e[k + 1], d.shape[k], d.strides[k])
        /\ descriptor_is_contiguous(d) <=> e[1] # NotDense
  BY ContiguousUnfolds
<1>2. /\ N \in Nat /\ s[N + 1] = 1
      /\ \A k \in 1 .. N : s[k] = s[k + 1] * d.shape[k]
  BY DEF SuffixProduct
<1>3. \A k \in 1 .. N + 1 : s[k] \in 1 .. s[1]
  BY SuffixesShrink
<1>4. \A k \in 1 .. N : d.shape[k] \in Int /\ d.shape[k] >= 1
  BY DEF Positive
<1>5. s[1] \in Int
  <2>1. 1 \in 1 .. N + 1
    BY <1>2
  <2> QED
    BY <2>1 DEF SuffixProduct
<1> HIDE DEF N
<1> DEFINE T == {k \in 1 .. N + 1 : e[k] = s[k]}
<1>6. ASSUME NEW k \in 1 .. N, k + 1 \in T PROVE k \in T
  <2>1. k \in 1 .. N + 1 /\ k + 1 \in 1 .. N + 1 /\ 1 \in 1 .. N + 1
    BY <1>2
  <2>2. s[k] \in 1 .. s[1] /\ s[k + 1] \in 1 .. s[1]
    BY <1>3, <2>1
  <2>3. /\ e[k] = ContiguousStep(s[k + 1], d.shape[k], d.strides[k])
        /\ s[k] = s[k + 1] * d.shape[k]
        /\ d.shape[k] = 1 \/ d.strides[k] = s[k + 1]
    BY <1>1, <1>2, <1>6 DEF N, DenseStride
  <2>4. s[k + 1] \in Nat /\ d.shape[k] \in Nat \ {0} /\ Int64Max \in Nat
    BY <1>4, <1>5, <2>2, Widths
  <2>5. s[k + 1] * d.shape[k] <= Int64Max
    <3>1. s[k] \in Int /\ s[k] <= s[1] /\ Int64Max \in Int
      BY <1>5, <2>2, <2>4
    <3> QED
      BY <1>5, <2>3, <3>1
  <2>6. ~ s[k + 1] > Int64Max \div d.shape[k]
    BY <2>4, <2>5, NoOverflow
  <2>7. s[k + 1] # 0
    BY <1>5, <2>2
  <2>8. e[k] = s[k + 1] * d.shape[k]
    BY <2>3, <2>6, <2>7 DEF ContiguousStep, NotDense
  <2> QED
    BY <2>1, <2>3, <2>8
<1>7. N + 1 \in T
  BY <1>1, <1>2
<1> HIDE DEF T
<1>8. \A k \in 1 .. N + 1 : k \in T
  BY <1>2, <1>6, <1>7, InductionDown
<1>9. e[1] # 0
  <2>1. 1 \in 1 .. N + 1
    BY <1>2
  <2>2. e[1] = s[1] /\ s[1] \in 1 .. s[1]
    BY <1>3, <1>8, <2>1 DEF T
  <2> QED
    BY <1>5, <2>2
<1> QED
  BY <1>1, <1>9 DEF NotDense

(* The last element is where its number says if the strides are dense. *)
LEMMA LastElement ==
  ASSUME NEW shape \in Seq(Int), NEW strides, Positive(shape), Dense(shape, strides)
  PROVE  Offset([k \in DOMAIN shape |-> shape[k] - 1], strides) = Extent(shape) - 1
<1> DEFINE N == Len(shape)
           ix == [k \in DOMAIN shape |-> shape[k] - 1]
<1>1. /\ N \in Nat /\ DOMAIN shape = 1 .. N
      /\ \A k \in 1 .. N : shape[k] \in Int /\ shape[k] >= 1
  BY DEF Positive
<1>2. ix \in [1 .. N -> Int] /\ \A k \in 1 .. N : ix[k] = shape[k] - 1
  BY <1>1
<1>3. ix \in Indexes(shape)
  <2>1. \A k \in 1 .. N : shape[k] - 1 \in 0 .. shape[k] - 1 /\ shape[k] - 1 < shape[k]
    BY <1>1
  <2>2. ix \in [1 .. N -> UNION {0 .. shape[k] - 1 : k \in 1 .. N}]
    BY <1>1, <2>1
  <2>3. \A k \in 1 .. N : ix[k] < shape[k]
    BY <1>2, <2>1
  <2> HIDE DEF ix
  <2> QED
    BY <1>1, <2>2, <2>3 DEF Indexes
<1> HIDE DEF ix
<1>4. ix \in Seq(Int) /\ Len(ix) = N
  BY <1>1, <1>2, Vector
<1>5. PICK p \in [0 .. N -> Int] :
        /\ p[0] = 0
        /\ \A k \in 1 .. N : p[k] = p[k - 1] * shape[k] + ix[k]
        /\ RowMajor(ix, shape) = p[N]
  BY <1>4, RowMajorUnfolds
<1>6. PICK x \in [0 .. N -> Int] :
        /\ x[0] = 1
        /\ \A k \in 1 .. N : x[k] = x[k - 1] * shape[k]
        /\ Extent(shape) = x[N]
  BY ExtentUnfolds
<1> HIDE DEF N
<1> DEFINE T == {k \in 0 .. N : p[k] = x[k] - 1}
<1>7. ASSUME NEW k \in 0 .. N - 1, k \in T PROVE k + 1 \in T
  <2>1. k + 1 \in 1 .. N /\ k + 1 - 1 = k /\ k + 1 \in 0 .. N
    BY <1>1
  <2>2. x[k] \in Int /\ shape[k + 1] \in Int
    BY <1>1, <2>1
  <2>3. x[k + 1] = x[k] * shape[k + 1]
    BY <1>6, <2>1
  <2>4. p[k + 1] = p[k] * shape[k + 1] + ix[k + 1]
    BY <1>5, <2>1
  <2>5. p[k + 1] = (x[k] - 1) * shape[k + 1] + shape[k + 1] - 1
    BY <1>2, <1>7, <2>1, <2>2, <2>4
  <2>6. (x[k] - 1) * shape[k + 1] = x[k] * shape[k + 1] - shape[k + 1]
    BY <2>2
  <2>7. x[k] * shape[k + 1] \in Int
    BY <2>2
  <2>8. p[k + 1] = x[k] * shape[k + 1] - 1
    BY <2>2, <2>5, <2>6, <2>7
  <2> QED
    BY <2>1, <2>3, <2>8
<1>8. 0 \in T
  BY <1>1, <1>5, <1>6
<1> HIDE DEF T
<1>9. \A k \in 0 .. N : k \in T
  BY <1>1, <1>7, <1>8, Induction
<1>10. p[N] = x[N] - 1
  BY <1>1, <1>9 DEF T
<1>11. Offset(ix, strides) = RowMajor(ix, shape)
  BY <1>3 DEF Dense
<1> QED
  BY <1>5, <1>6, <1>10, <1>11 DEF ix

-----------------------------------------------------------------------------
(* Scalars: one element, at offset 0. *)
LEMMA Scalar ==
  ASSUME NEW strides \in Seq(Int)
  PROVE  Extent(<< >>) = 1 /\ Dense(<< >>, strides)
<1>1. << >> \in Seq(Int) /\ Len(<< >>) = 0
  OBVIOUS
<1>2. Extent(<< >>) = 1
  BY <1>1, ExtentUnfolds
<1>3. ASSUME NEW ix \in Indexes(<< >>)
      PROVE  Offset(ix, strides) = RowMajor(ix, << >>)
  <2>1. ix \in Seq(Int) /\ Len(ix) = 0
    <3>1. ix \in [1 .. 0 -> Int]
      BY DEF Indexes
    <3> QED
      BY <3>1, Vector
  <2>2. Len(strides) >= Len(ix)
    BY <2>1
  <2>3. Offset(ix, strides) = 0
    <3>1. PICK n \in [0 .. Len(ix) -> Int] : n[0] = 0 /\ Offset(ix, strides) = n[Len(ix)]
      BY <2>1, <2>2, OffsetUnfolds
    <3> QED
      BY <2>1, <3>1
  <2>4. RowMajor(ix, << >>) = 0
    <3>1. PICK n \in [0 .. Len(<< >>) -> Int] :
            n[0] = 0 /\ RowMajor(ix, << >>) = n[Len(<< >>)]
      BY <1>1, <2>1, RowMajorUnfolds
    <3> QED
      BY <1>1, <3>1
  <2> QED
    BY <2>3, <2>4
<1> QED
  BY <1>2, <1>3 DEF Dense

LEMMA ElementSizes ==
  \A dtype \in DOMAIN element_size :
    element_size[dtype] \in 0 .. 8 /\ (element_size[dtype] = 0 <=> dtype = "UNKNOWN")
BY DEF element_size

(* A descriptor that passes validate_tensor_descriptor is row-major and has*)
(* no gaps, and byte_size is the bytes of its elements unless those are no *)
(* size_t (python_bindings.cpp 70-174).                                    *)
THEOREM ValidDescriptor ==
  ASSUME NEW d, d.shape \in Seq(Int), d.strides \in Seq(Int),
         d.dtype \in DOMAIN element_size, validate_tensor_descriptor(d)
  PROVE  /\ Dense(d.shape, d.strides)
         /\ Extent(d.shape) >= 1
         /\ Extent(d.shape) * element_size[d.dtype] <= SizeMax
              => d.byte_size = Extent(d.shape) * element_size[d.dtype]
<1>1. element_size[d.dtype] \in Nat
  BY ElementSizes
<1>2. CASE d.shape = << >> /\ d.byte_size = element_size[d.dtype]
  <2>1. Extent(d.shape) = 1 /\ Dense(d.shape, d.strides)
    BY <1>2, Scalar
  <2>2. 1 * element_size[d.dtype] = element_size[d.dtype]
    BY <1>1
  <2> QED
    BY <1>2, <2>1, <2>2
<1>3. CASE /\ d.shape # << >> /\ Len(d.strides) = Len(d.shape)
           /\ descriptor_numel(d.shape) \notin {0, Overflow}
           /\ d.byte_size = Word(descriptor_numel(d.shape) * element_size[d.dtype])
           /\ descriptor_is_contiguous(d)
  <2>1. Positive(d.shape) /\ descriptor_numel(d.shape) = Extent(d.shape)
    BY <1>3, NumelIsExtent
  <2>2. PICK s : SuffixProduct(s, d.shape)
    BY SuffixProducts
  <2>3. Dense(d.shape, d.strides)
    BY <1>3, <2>1, <2>2, ContiguousHasDenseStrides, DenseStrides
  <2>4. Extent(d.shape) \in Int /\ Extent(d.shape) >= 1
    <3>1. s[1] \in 1 .. s[1] /\ s[1] \in Int /\ s[1] = Extent(d.shape)
      <4>1. 1 \in 1 .. Len(d.shape) + 1
        OBVIOUS
      <4> QED
        BY <2>1, <2>2, <4>1, SuffixesShrink DEF SuffixProduct
    <3> QED
      BY <3>1
  <2>5. Extent(d.shape) * element_size[d.dtype] \in Nat
    BY <1>1, <2>4
  <2> QED
    BY <1>3, <2>1, <2>3, <2>4, <2>5, Fitting, Widths
<1> QED
  BY <1>2, <1>3 DEF validate_tensor_descriptor

LEMMA EndOfElements ==
  ASSUME NEW offset \in Nat, NEW n \in Nat, NEW size \in Nat, NEW bytes \in Nat,
         (offset + (n - 1) + 1) * size <= bytes
  PROVE  n * size \in Nat /\ n * size <= bytes
<1>1. offset + (n - 1) + 1 = offset + n
  OBVIOUS
<1>2. (offset + n) * size = offset * size + n * size
  OBVIOUS
<1>3. offset * size \in Nat /\ n * size \in Nat
  OBVIOUS
<1> QED
  BY <1>1, <1>2, <1>3

(* The memory of a dense tensor lies in its storage, and can be counted. *)
LEMMA DenseTensor ==
  ASSUME NEW t, TorchTensor(t), t.dtype \in DOMAIN element_size,
         is_contiguous(t), numel(t) # 0
  PROVE  /\ Positive(t.shape)
         /\ numel(t) * element_size[t.dtype] \in Nat
         /\ numel(t) * element_size[t.dtype] <= t.nbytes
<1> DEFINE size == element_size[t.dtype]
           last == Offset([k \in DOMAIN t.shape |-> t.shape[k] - 1], t.strides)
<1>1. /\ t.shape \in Seq(Nat) /\ t.shape \in Seq(Int) /\ t.strides \in Seq(Int)
      /\ numel(t) \in Nat /\ t.nbytes \in Nat /\ t.storage_offset \in Nat
      /\ size \in Nat
  BY ElementSizes, Widths DEF TorchTensor
<1>2. Positive(t.shape)
  BY <1>1, ExtentPositive DEF numel
<1>3. last = numel(t) - 1
  BY <1>1, <1>2, LastElement DEF is_contiguous, numel
<1>4. (t.storage_offset + last + 1) * size <= t.nbytes
  <2>1. numel(t) > 0
    BY <1>1
  <2> QED
    BY <2>1 DEF TorchTensor
<1> HIDE DEF size, last
<1>5. (t.storage_offset + (numel(t) - 1) + 1) * size <= t.nbytes
  BY <1>3, <1>4
<1>6. numel(t) * size \in Nat /\ numel(t) * size <= t.nbytes
  BY <1>1, <1>5, EndOfElements
<1> QED
  BY <1>2, <1>6 DEF size

(* make_descriptor_from_tensor of the bindings and                         *)
(* validate_tensor_for_zero_copy of orchestrator.py accept the same        *)
(* tensors, whose elements all lie in their storage (python_bindings.cpp   *)
(* 176-219, orchestrator.py 127-182).                                      *)
THEOREM ChecksAgree ==
  ASSUME NEW t, TorchTensor(t), t.dtype \in DOMAIN element_size
  PROVE  /\ t.dtype # "UNKNOWN" =>
              (make_descriptor_from_tensor(t) <=> validate_tensor_for_zero_copy(t, t.dtype))
         /\ make_descriptor_from_tensor(t) =>
              /\ DescriptorOf(t).byte_size = numel(t) * element_size[t.dtype]
              /\ DescriptorOf(t).byte_size <= t.nbytes
<1> DEFINE d == DescriptorOf(t)
           bytes == numel(t) * element_size[t.dtype]
<1>1. /\ d.shape = t.shape /\ d.strides = t.strides /\ d.dtype = t.dtype
      /\ d.allocated = t.allocated /\ d.byte_size = Word(bytes)
  BY DEF DescriptorOf
<1>2. /\ t.shape \in Seq(Nat) /\ t.shape \in Seq(Int) /\ t.strides \in Seq(Int)
      /\ Len(t.strides) = Len(t.shape)
      /\ numel(t) \in 0 .. Int64Max /\ t.nbytes \in 0 .. Int64Max
      /\ Int64Max \in Nat /\ SizeMax \in Nat /\ Int64Max <= SizeMax
  BY Widths DEF TorchTensor
<1> HIDE DEF d
<1>3. ASSUME is_contiguous(t), numel(t) # 0
      PROVE  d.byte_size = bytes /\ bytes <= t.nbytes
  <2>1. bytes \in Nat /\ bytes <= t.nbytes
    BY <1>3, DenseTensor
  <2>2. bytes \in 0 .. SizeMax
    BY <1>2, <2>1
  <2> QED
    BY <1>1, <2>1, <2>2, Fitting
<1>4. ASSUME make_descriptor_from_tensor(t)
      PROVE  is_contiguous(t) /\ numel(t) # 0
  <2>1. validate_tensor_descriptor(d)
    BY <1>4 DEF make_descriptor_from_tensor, d
  <2>2. Dense(d.shape, d.strides) /\ Extent(d.shape) >= 1
    BY <1>1, <1>2, <2>1, ValidDescriptor
  <2> QED
    BY <1>1, <1>2, <2>2 DEF is_contiguous, numel
<1>5. ASSUME t.dtype # "UNKNOWN", make_descriptor_from_tensor(t)
      PROVE  validate_tensor_for_zero_copy(t, t.dtype)
  <2>1. is_contiguous(t) /\ numel(t) # 0 /\ bytes <= t.nbytes
    BY <1>3, <1>4, <1>5
  <2>2. t.allocated /\ t.storage_offset = 0
    BY <1>1, <1>5 DEF make_descriptor_from_tensor, validate_tensor_descriptor, d
  <2>3. bytes \in Nat
    BY <2>1, DenseTensor
  <2> QED
    BY <1>2, <2>1, <2>2, <2>3 DEF validate_tensor_for_zero_copy
<1>6. ASSUME t.dtype # "UNKNOWN", validate_tensor_for_zero_copy(t, t.dtype)
      PROVE  make_descriptor_from_tensor(t)
  <2>1. is_contiguous(t) /\ t.storage_offset = 0 /\ numel(t) # 0 /\ t.allocated
    BY <1>6 DEF validate_tensor_for_zero_copy
  <2>2. d.byte_size = bytes /\ bytes <= t.nbytes /\ bytes \in Nat
    BY <1>3, <2>1, DenseTensor
  <2>3. ASSUME t.shape = << >> PROVE d.byte_size = element_size[t.dtype]
    <3>1. numel(t) = 1
      BY <1>2, <2>3, Scalar DEF numel
    <3>2. element_size[t.dtype] \in Nat
      BY ElementSizes
    <3> QED
      BY <2>2, <3>1, <3>2
  <2>4. /\ descriptor_numel(t.shape) \notin {0, Overflow}
        /\ d.byte_size = Word(descriptor_numel(t.shape) * element_size[t.dtype])
        /\ descriptor_is_contiguous(d)
    <3>1. Positive(t.shape)
      BY <2>1, DenseTensor
    <3>2. descriptor_numel(t.shape) = numel(t)
      BY <1>2, <3>1, NumelOfExtent DEF numel
    <3>3. PICK s : SuffixProduct(s, t.shape)
      BY <1>2, SuffixProducts
    <3>4. \A k \in 1 .. Len(t.shape) : DenseStride(s, t.shape, t.strides, k)
      BY <1>2, <2>1, <3>1, <3>3, DenseStrides DEF is_contiguous
    <3>5. s[1] <= Int64Max
      BY <1>2, <3>3 DEF SuffixProduct, numel
    <3>6. descriptor_is_contiguous(d)
      BY <1>1, <1>2, <3>1, <3>3, <3>4, <3>5, DenseStridesAreContiguous
    <3> QED
      BY <1>1, <1>2, <2>1, <3>2, <3>6 DEF Overflow
  <2>5. validate_tensor_descriptor(d)
    BY <1>1, <1>2, <1>6, <2>1, <2>3, <2>4 DEF validate_tensor_descriptor
  <2> QED
    BY <1>1, <1>2, <1>6, <2>1, <2>2, <2>5 DEF make_descriptor_from_tensor, d
<1> QED
  BY <1>3, <1>4, <1>5, <1>6 DEF d

=============================================================================
