--------------------------- MODULE NativeBoundary ---------------------------
(***************************************************************************)
(* The numbers that come to AOTEngine from outside: the offsets of the     *)
(* .kin file it loads, and the shape and size of what it is launched on,   *)
(* from the bindings' check to the grid of the kernel.  What a kernel is   *)
(* and whether it is a mock is AOTEngine's; here a module is loaded or not.*)
(***************************************************************************)
EXTENDS KinFormat, TensorDescriptor

CONSTANTS
  SavedSizes,     \* [metadata, kernels] sizes that are saved
  ForeignFiles,   \* files this code has not written
  Descriptors,    \* filled in by Python code
  Tensors,
  SeqLens,
  ByteSizes,      \* given with bare pointers, or to the router
  BlockSizes,     \* of structured descriptors; 256 is the default
  DefaultBlock,
  None

Stretch == [offset : 0 .. SizeMax, size : 0 .. SizeMax]

KinFile ==
  [size : 0 .. Int64Max, magic : BOOLEAN,
   header : [op_graph_data : Stretch, kernel_binaries : Stretch]]

(* A file is not longer than a signed offset tells, a size_t is what the   *)
(* struct has for a size, and an int is what a launch takes.               *)
ASSUME BoundaryAssumption ==
  /\ \A s \in SavedSizes :
       /\ s.metadata \in Nat /\ s.kernels \in Nat
       /\ HeaderSize + s.metadata + s.kernels <= Int64Max
  /\ ForeignFiles \subseteq KinFile /\ None \notin KinFile
  /\ \A d \in Descriptors :
       /\ d.shape \in Seq(Int) /\ d.strides \in Seq(Int)
       /\ d.dtype \in DOMAIN element_size
       /\ d.byte_size \in 0 .. SizeMax
  /\ \A t \in Tensors : TorchTensor(t) /\ t.dtype \in DOMAIN element_size
  /\ DefaultBlock \in BlockSizes /\ DefaultBlock \in 1 .. IntMax + 1
  /\ BlockSizes \subseteq 0 .. IntSize - 1
  /\ SeqLens \subseteq -(IntMax + 1) .. IntMax
  /\ ByteSizes \subseteq 0 .. SizeMax

VARIABLES
  in,        \* the file load_model has open
  saved,     \* the sizes it was saved with, if it was written by this code
  taken,     \* the stretches of it read so far
  module,    \* whether a module is loaded
  input,     \* the tensor or descriptor of the call at hand
  launched   \* what it launched

fileVars     == <<in, saved, taken, module>>
callVars     == <<input, launched>>
boundaryVars == <<fileVars, callVars>>

BoundaryInit ==
  /\ in = None /\ saved = None /\ taken = << >> /\ module = FALSE
  /\ input = None /\ launched = None

-----------------------------------------------------------------------------
(* One call at a time: engine_mutex_ is held. *)
NoCall == in = None /\ input = None /\ launched = None

(* A file may have been cut short anywhere. *)
OpenSaved ==
  /\ NoCall
  /\ \E s \in SavedSizes :
       /\ saved' = s
       /\ \E n \in 0 .. HeaderSize + s.metadata + s.kernels :
            in' = [size |-> n, magic |-> TRUE,
                   header |-> KinHeader(s.metadata, s.kernels)]
  /\ UNCHANGED <<taken, module, callVars>>

OpenForeign ==
  /\ NoCall
  /\ in' \in ForeignFiles
  /\ UNCHANGED <<saved, taken, module, callVars>>

Close == in' = None /\ saved' = None /\ taken' = << >>

load_model_gate ==
  /\ in # None /\ taken = << >>
  /\ GateReads(in)
  /\ taken' = <<in.header.op_graph_data>>
  /\ UNCHANGED <<in, saved, module, callVars>>

load_kin_file ==
  /\ Len(taken) = 1
  /\ LoaderReads(in)
  /\ taken' = Append(taken, in.header.kernel_binaries)
  /\ UNCHANGED <<in, saved, module, callVars>>

(* What is read may be refused for what it says, a mock, another device;   *)
(* and when the kernels are there, the old module may be lost.             *)
load_raises ==
  /\ in # None
  /\ taken = << >> => ~ GateReads(in)
  /\ module' = module \/ (Len(taken) = 2 /\ module' = FALSE)
  /\ Close
  /\ UNCHANGED callVars

load_returns ==
  /\ Len(taken) = 2
  /\ module' = TRUE
  /\ Close
  /\ UNCHANGED callVars

-----------------------------------------------------------------------------
(* Python prepares a call. *)
FillDescriptor ==
  /\ NoCall
  /\ input' \in [descriptor : Descriptors]
  /\ UNCHANGED <<fileVars, launched>>

MakeTensor ==
  /\ NoCall
  /\ input' \in [tensor : Tensors]
  /\ UNCHANGED <<fileVars, launched>>

IsDescriptor == input # None /\ "descriptor" \in DOMAIN input
IsTensor     == input # None /\ "tensor" \in DOMAIN input

(* Fault: the last, partly filled item is not counted. *)
work_items_floor(seq_len, byte_size) ==
  IF seq_len > 0 THEN seq_len ELSE ToInt(byte_size \div 4)

(* The size in 32-bit items is narrowed to an int. *)
work_items(seq_len, byte_size) ==
  IF seq_len > 0 THEN seq_len ELSE ToInt(Word(byte_size + 4 - 1) \div 4)

(* int plus unsigned is unsigned. *)
grid_x(items, block_x) == Unsigned(items + block_x - 1) \div block_x

launch(seq_len, byte_size, block_x) ==
  LET items == work_items(seq_len, byte_size) IN
  /\ module
  /\ block_x # 0
  /\ items > 0
  /\ launched' = [seq_len |-> seq_len, byte_size |-> byte_size,
                  block_x |-> block_x, grid_x |-> grid_x(items, block_x)]
  /\ input' = None
  /\ UNCHANGED fileVars

(* Two bindings each take descriptors and tensors; the router's can be told*)
(* another size.                                                           *)
effective_byte_size(given, own) == IF given # 0 THEN given ELSE own

launch_descriptors ==
  /\ IsDescriptor
  /\ validate_tensor_descriptor(input.descriptor)
  /\ \E seq_len \in SeqLens, given \in {0} \cup ByteSizes :
       launch(seq_len, effective_byte_size(given, input.descriptor.byte_size),
              DefaultBlock)

launch_tensor ==
  /\ IsTensor
  /\ make_descriptor_from_tensor(input.tensor)
  /\ \E seq_len \in SeqLens, given \in {0} \cup ByteSizes :
       launch(seq_len,
              effective_byte_size(given, DescriptorOf(input.tensor).byte_size),
              DefaultBlock)

(* A structured descriptor also gives the block, and its grid may be left  *)
(* to the engine; with bare pointers the block is the default.             *)
launch_descriptor ==
  /\ NoCall
  /\ \E seq_len \in SeqLens, byte_size \in ByteSizes, block_x \in BlockSizes :
       launch(seq_len, byte_size, block_x)

(* A launch returns; or the call raises, which it may do before. *)
launch_returns ==
  /\ input # None \/ launched # None
  /\ input' = None /\ launched' = None
  /\ UNCHANGED fileVars

-----------------------------------------------------------------------------
BoundaryNext ==
  \/ OpenSaved \/ OpenForeign
  \/ load_model_gate \/ load_kin_file \/ load_raises \/ load_returns
  \/ FillDescriptor \/ MakeTensor
  \/ launch_descriptors \/ launch_tensor \/ launch_descriptor \/ launch_returns

BoundarySpec == BoundaryInit /\ [][BoundaryNext]_boundaryVars

-----------------------------------------------------------------------------
(* Every variable has its type. *)
BoundaryTypeOK ==
  /\ in # None => in.size \in Nat /\ in.magic \in BOOLEAN
  /\ saved \in SavedSizes \cup {None}
  /\ Len(taken) <= 2
  /\ module \in BOOLEAN
  /\ input # None => IsDescriptor \/ IsTensor
  /\ launched # None => launched.grid_x \in 0 .. IntSize - 1

(* Whatever offsets and sizes a header gives, what is taken for metadata   *)
(* and kernels lies in the file; where the sum of the gate wraps, the      *)
(* count of bytes read sees to it (AOTEngine.cpp 140-150, 192-194, 367-377)*)
TakenLiesInFile ==
  \A k \in DOMAIN taken :
    taken[k].size = 0 \/ taken[k].offset + taken[k].size <= in.size

(* A file this code saved passes the gate if and only if its metadata are  *)
(* whole, and the loader if and only if all of it is; AOTEngine's model    *)
(* knows a file by these sections only (AOTEngine.cpp 77-103, 360-377).    *)
SectionsDecide ==
  saved # None =>
    /\ GateReads(in) <=> in.size >= HeaderSize + saved.metadata
    /\ LoaderReads(in) <=> in.size = HeaderSize + saved.metadata + saved.kernels

(* A descriptor that passes describes memory without gaps: its elements    *)
(* are where row-major order has them, and its size is theirs unless that  *)
(* is no size_t (python_bindings.cpp 70-174).                              *)
DescriptorIsDense ==
  IsDescriptor /\ validate_tensor_descriptor(input.descriptor) =>
    LET d == input.descriptor
        bytes == Extent(d.shape) * element_size[d.dtype] IN
    /\ \A ix \in Indexes(d.shape) : Offset(ix, d.strides) = RowMajor(ix, d.shape)
    /\ bytes <= SizeMax => d.byte_size = bytes

(* The bindings and orchestrator.py accept the same tensors, and those are *)
(* the dense ones that start their storage; what is launched on lies in it *)
(* (orchestrator.py 127-182, python_bindings.cpp 176-219).                 *)
TensorChecksAgree ==
  IsTensor =>
    LET t == input.tensor IN
    /\ t.dtype # "UNKNOWN" =>
         (make_descriptor_from_tensor(t) <=> validate_tensor_for_zero_copy(t, t.dtype))
    /\ make_descriptor_from_tensor(t) =>
         /\ DescriptorOf(t).byte_size = numel(t) * element_size[t.dtype]
         /\ DescriptorOf(t).byte_size <= t.nbytes

(* The grid covers what there is to do, with no block to spare, as long as *)
(* the block is no more than an int counts, and so is the number of items  *)
(* where it comes from a size (AOTEngine.cpp 515-521).                     *)
IsInt(seq_len, byte_size, block_x) ==
  /\ seq_len <= 0 => byte_size + 3 <= SizeMax /\ (byte_size + 3) \div 4 <= IntMax
  /\ block_x <= IntMax + 1

GridCoversWork ==
  launched # None /\ IsInt(launched.seq_len, launched.byte_size, launched.block_x) =>
    LET items == IF launched.seq_len > 0 THEN launched.seq_len
                 ELSE (launched.byte_size + 3) \div 4 IN
    /\ launched.grid_x * launched.block_x >= items
    /\ (launched.grid_x - 1) * launched.block_x < items

=============================================================================
