-------------------------- MODULE TensorDescriptor --------------------------
(***************************************************************************)
(* What crosses from Python to native code as a tensor: TensorDescriptor   *)
(* of python_bindings.cpp with its validation, its construction from a     *)
(* torch.Tensor, and the check orchestrator.py makes before it hands over a*)
(* bare pointer.                                                           *)
(*                                                                         *)
(* A descriptor is [allocated, shape, strides, dtype, byte_size]; its      *)
(* fields are writable from Python, so they need not fit together.  A      *)
(* tensor is [allocated, shape, strides, dtype, storage_offset, nbytes];   *)
(* it is external, and what is assumed of it is TorchTensor.               *)
(***************************************************************************)
EXTENDS MachineWords, Sequences

element_size ==
  [FLOAT32 |-> 4, FLOAT16 |-> 2, BFLOAT16 |-> 2, INT32 |-> 4, INT64 |-> 8,
   INT8 |-> 1, BOOL |-> 1, UNKNOWN |-> 0]

-----------------------------------------------------------------------------
(* The loop over the shape ends early at 0 and at Overflow. *)
Overflow == -1

NumelStep(n, size) ==
  CASE n \in {0, Overflow} -> n
    [] n \notin {0, Overflow} /\ size <= 0 -> 0
    [] OTHER -> IF n > SizeMax \div size THEN Overflow ELSE n * size

descriptor_numel(shape) ==
  LET n[k \in 0 .. Len(shape)] ==
        IF k = 0 THEN 1 ELSE NumelStep(n[k - 1], shape[k])
  IN n[Len(shape)]

(* Dimensions are visited from the last to the first; the loop ends early  *)
(* at NotDense.                                                            *)
NotDense == 0

(* Fault: a dimension of size one must have the dense stride as well. *)
ContiguousStep_strict(expected, size, stride) ==
  IF expected = NotDense \/ stride # expected \/ expected > Int64Max \div size
  THEN NotDense ELSE expected * size

(* Fault: a smaller stride will do. *)
ContiguousStep_lax(expected, size, stride) ==
  IF expected = NotDense \/ (size # 1 /\ stride > expected)
       \/ expected > Int64Max \div size
  THEN NotDense ELSE expected * size

ContiguousStep(expected, size, stride) ==
  IF expected = NotDense \/ (size # 1 /\ stride # expected)
       \/ expected > Int64Max \div size
  THEN NotDense ELSE expected * size

(* Evaluated for positive sizes only. *)
descriptor_is_contiguous(d) ==
  LET expected[k \in 1 .. Len(d.shape) + 1] ==
        IF k = Len(d.shape) + 1 THEN 1
        ELSE ContiguousStep(expected[k + 1], d.shape[k], d.strides[k])
  IN expected[1] # NotDense

validate_tensor_descriptor(d) ==
  /\ d.allocated
  /\ d.dtype # "UNKNOWN"
  /\ \/ /\ d.shape = << >>
        /\ d.byte_size = element_size[d.dtype]
     \/ /\ d.shape # << >>
        /\ Len(d.strides) = Len(d.shape)
        /\ descriptor_numel(d.shape) \notin {0, Overflow}
        /\ d.byte_size = Word(descriptor_numel(d.shape) * element_size[d.dtype])
        /\ descriptor_is_contiguous(d)

-----------------------------------------------------------------------------
(* Where the element at an index is, and which it is in row-major order. *)
Extent(shape) ==
  LET n[k \in 0 .. Len(shape)] == IF k = 0 THEN 1 ELSE n[k - 1] * shape[k]
  IN n[Len(shape)]

Indexes(shape) ==
  {ix \in [DOMAIN shape -> UNION {0 .. shape[k] - 1 : k \in DOMAIN shape}] :
     \A k \in DOMAIN shape : ix[k] < shape[k]}

Offset(ix, strides) ==
  LET sum[k \in 0 .. Len(ix)] ==
        IF k = 0 THEN 0 ELSE sum[k - 1] + ix[k] * strides[k]
  IN sum[Len(ix)]

RowMajor(ix, shape) ==
  LET place[k \in 0 .. Len(shape)] ==
        IF k = 0 THEN 0 ELSE place[k - 1] * shape[k] + ix[k]
  IN place[Len(shape)]

(* Row-major and without gaps. *)
Dense(shape, strides) ==
  \A ix \in Indexes(shape) : Offset(ix, strides) = RowMajor(ix, shape)

-----------------------------------------------------------------------------
(* torch.Tensor: numel, is_contiguous, and that every element lies in the  *)
(* storage.                                                                *)
numel(t) == Extent(t.shape)
is_contiguous(t) == Dense(t.shape, t.strides)

TorchTensor(t) ==
  /\ t.shape \in Seq(Nat) /\ t.strides \in Seq(Int)
  /\ Len(t.strides) = Len(t.shape)
  /\ numel(t) \in 0 .. Int64Max /\ t.nbytes \in 0 .. Int64Max
  /\ t.storage_offset \in Nat
  /\ numel(t) > 0 =>
       (t.storage_offset + Offset([k \in DOMAIN t.shape |-> t.shape[k] - 1], t.strides)
          + 1) * element_size[t.dtype] <= t.nbytes

DescriptorOf(t) ==
  [allocated |-> t.allocated, shape |-> t.shape, strides |-> t.strides,
   dtype |-> t.dtype, byte_size |-> Word(numel(t) * element_size[t.dtype])]

make_descriptor_from_tensor(t) ==
  /\ t.storage_offset = 0
  /\ t.dtype # "UNKNOWN"
  /\ t.nbytes >= DescriptorOf(t).byte_size
  /\ validate_tensor_descriptor(DescriptorOf(t))

validate_tensor_for_zero_copy(t, expected_dtype) ==
  /\ is_contiguous(t)
  /\ t.dtype = expected_dtype
  /\ t.storage_offset = 0
  /\ numel(t) # 0
  /\ t.nbytes >= numel(t) * element_size[t.dtype]
  /\ t.allocated

=============================================================================
