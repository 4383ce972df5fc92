------------------------ MODULE KineticRuntimeProofs ------------------------
(***************************************************************************)
(* For words of any width: nothing is taken from outside a file, a file    *)
(* that was saved is loaded if and only if it is whole, a grid covers the  *)
(* work, and the generation loop chooses tokens from logits that the device*)
(* has finished to write.                                                  *)
(*                                                                         *)
(* The properties speak of a call at hand; IInv adds what is known of it   *)
(* since it began: that what was taken was read in full, that the header of*)
(* a saved file is the one save_kin_file writes, that the numbers of a     *)
(* launch passed its checks, and that what was launched on passed the check*)
(* of residency.                                                           *)
(***************************************************************************)
EXTENDS KineticRuntime, TensorDescriptorProofs

FileInv ==
  /\ in \in KinFile \cup {None}
  /\ in = None => saved = None /\ taken = << >>
  /\ saved # None =>
       /\ saved \in SavedSizes
       /\ in.magic
       /\ in.header = KinHeader(saved.metadata, saved.kernels)
       /\ in.size <= HeaderSize + saved.metadata + saved.kernels
  /\ taken \in Seq(Stretch) /\ Len(taken) <= 2
  /\ \A k \in DOMAIN taken : ReadsAll(in, taken[k])
  /\ module \in BOOLEAN

Launched(l) ==
  /\ l.seq_len \in Int /\ l.seq_len <= IntMax
  /\ l.byte_size \in Nat
  /\ l.block_x \in 1 .. IntSize - 1
  /\ work_items(l.seq_len, l.byte_size) \in 1 .. IntMax
  /\ l.grid_x = grid_x(work_items(l.seq_len, l.byte_size), l.block_x)

CallInv ==
  /\ input \in [descriptor : Descriptors] \cup [tensor : Tensors] \cup {None}
  /\ launched # None => Launched(launched)

(* Where TokensFromWrittenLogits speaks of the logits. *)
Settles ==
  /\ call.backend = "router"
  /\ call.allow_mocks => call.device = "cuda"

LoopTypeOK ==
  /\ call \in Call \cup {None}
  /\ at \in {"idle", "loop", "launched", "choose"}
  /\ tokens \in 0 .. max_seq_len
  /\ left \in Nat
  /\ logits \in {"unwritten", "awaited", "written"}

LoopInv ==
  /\ LoopTypeOK
  /\ at # "idle" => tokens > 0
  /\ at \in {"launched", "choose"} =>
       /\ left > 0 /\ tokens < max_seq_len
       /\ Settles =>
            /\ call.device = "cuda" /\ logits # "unwritten"
            /\ at = "choose" => logits = "written"
            /\ launched.grid_x * launched.block_x >= tokens

IInv == FileInv /\ CallInv /\ LoopInv

-----------------------------------------------------------------------------
(* The arithmetic of the words. *)

(* Blocks that cover the items, with none to spare. *)
LEMMA GridCovers ==
  ASSUME NEW items \in 1 .. IntMax, NEW block_x \in 1 .. IntMax + 1
  PROVE  /\ grid_x(items, block_x) \in Nat
         /\ grid_x(items, block_x) * block_x >= items
         /\ (grid_x(items, block_x) - 1) * block_x < items
<1> DEFINE n == items + block_x - 1
           q == n \div block_x
<1>1. n \in 0 .. IntSize - 1 /\ n \in Nat /\ block_x \in Nat \ {0}
  BY Widths
<1>2. grid_x(items, block_x) = q
  BY <1>1, Fitting DEF grid_x
<1>3. q \in Nat /\ q * block_x <= n /\ n < q * block_x + block_x
  BY <1>1, Quotient
<1>4. (q - 1) * block_x = q * block_x - block_x
  BY <1>1, <1>3
<1>5. q * block_x \in Int
  BY <1>1, <1>3
<1> HIDE DEF q
<1> QED
  BY <1>1, <1>2, <1>3, <1>4, <1>5

(* The items of a launch whose size is an int's worth of items. *)
LEMMA ItemsOf ==
  ASSUME NEW byte_size \in Nat, byte_size + 3 <= SizeMax,
         (byte_size + 3) \div 4 <= IntMax
  PROVE  ToInt(Word(byte_size + 4 - 1) \div 4) = (byte_size + 3) \div 4
<1>1. byte_size + 4 - 1 = byte_size + 3 /\ byte_size + 3 \in 0 .. SizeMax
  BY Widths
<1>2. (byte_size + 3) \div 4 \in 0 .. IntMax
  BY Widths
<1> QED
  BY <1>1, <1>2, Fitting

(* The stretch of bytes that a read in full has taken. *)
LEMMA ReadInFull ==
  ASSUME NEW file \in KinFile, NEW s \in Stretch
  PROVE  /\ ReadsAll(file, s) => s.size = 0 \/ s.offset + s.size <= file.size
         /\ /\ s.offset <= Int64Max /\ s.size <= Int64Max
            /\ s.offset + s.size <= file.size
            => ReadsAll(file, s)
<1>1. s.size \in Nat /\ s.offset \in Nat /\ file.size \in Nat
  BY Widths DEF Stretch, KinFile
<1>2. s.offset <= Int64Max => ToInt64(s.offset) = s.offset
  BY <1>1, Fitting, Widths
<1> QED
  BY <1>1, <1>2 DEF ReadsAll, Allocatable, gcount, Smaller, Larger

-----------------------------------------------------------------------------
(* Files. *)

LEMMA OpenSavedStep ==
  ASSUME FileInv, OpenSaved
  PROVE  FileInv'
<1>1. PICK s \in SavedSizes :
        /\ saved' = s
        /\ \E n \in 0 .. HeaderSize + s.metadata + s.kernels :
             in' = [size |-> n, magic |-> TRUE,
                    header |-> KinHeader(s.metadata, s.kernels)]
  BY DEF OpenSaved
<1>2. PICK n \in 0 .. HeaderSize + s.metadata + s.kernels :
        in' = [size |-> n, magic |-> TRUE,
               header |-> KinHeader(s.metadata, s.kernels)]
  BY <1>1
<1>3. /\ HeaderSize \in Nat /\ s.metadata \in Nat /\ s.kernels \in Nat
      /\ HeaderSize + s.metadata + s.kernels <= Int64Max
      /\ Int64Max \in Nat /\ Int64Max < SizeMax
  BY BoundaryAssumption, FormatAssumption, Widths
<1>4. KinHeader(s.metadata, s.kernels) \in
        [op_graph_data : Stretch, kernel_binaries : Stretch]
  <2>1. /\ HeaderSize \in 0 .. SizeMax /\ s.metadata \in 0 .. SizeMax
        /\ HeaderSize + s.metadata \in 0 .. SizeMax
        /\ s.kernels \in 0 .. SizeMax
    BY <1>3, Widths
  <2> QED
    BY <2>1 DEF KinHeader, Stretch
<1>5. in' \in KinFile /\ in' # None
  <2>1. n \in 0 .. Int64Max
    BY <1>3
  <2>2. in' \in KinFile
    BY <1>2, <1>4, <2>1 DEF KinFile
  <2> QED
    BY <2>2, BoundaryAssumption
<1>6. taken = << >> /\ taken' = << >> /\ module' = module
  BY DEF OpenSaved, NoCall, FileInv, callVars
<1> QED
  BY <1>1, <1>2, <1>5, <1>6 DEF FileInv

LEMMA OpenForeignStep ==
  ASSUME FileInv, OpenForeign
  PROVE  FileInv'
<1>1. in' \in KinFile /\ in' # None
  BY BoundaryAssumption DEF OpenForeign
<1>2. saved' = None /\ taken' = << >> /\ module' = module
  BY DEF OpenForeign, NoCall, FileInv, callVars
<1> QED
  BY <1>1, <1>2 DEF FileInv

(* One more stretch has been read in full. *)
LEMMA TakesOne ==
  ASSUME NEW q \in Seq(Stretch), NEW s \in Stretch, Len(q) < 2,
         \A k \in DOMAIN q : ReadsAll(in, q[k]), ReadsAll(in, s)
  PROVE  /\ Append(q, s) \in Seq(Stretch) /\ Len(Append(q, s)) <= 2
         /\ \A k \in DOMAIN Append(q, s) : ReadsAll(in, Append(q, s)[k])
<1>1. Len(Append(q, s)) = Len(q) + 1
  OBVIOUS
<1>2. ASSUME NEW k \in 1 .. Len(q) + 1 PROVE ReadsAll(in, Append(q, s)[k])
  BY <1>2
<1> QED
  BY <1>1, <1>2

LEMMA GateStep ==
  ASSUME FileInv, load_model_gate \/ load_kin_file
  PROVE  FileInv'
<1>1. /\ in \in KinFile
      /\ in.header.op_graph_data \in Stretch
      /\ in.header.kernel_binaries \in Stretch
  BY DEF FileInv, load_model_gate, load_kin_file, KinFile
<1>2. in' = in /\ saved' = saved /\ module' = module
  BY DEF load_model_gate, load_kin_file
<1>3. CASE load_model_gate
  <2>1. taken = << >> /\ taken' = Append(taken, in.header.op_graph_data)
    BY <1>3 DEF load_model_gate
  <2>2. ReadsAll(in, in.header.op_graph_data)
    BY <1>3 DEF load_model_gate, GateReads
  <2>3. /\ taken' \in Seq(Stretch) /\ Len(taken') <= 2
        /\ \A k \in DOMAIN taken' : ReadsAll(in, taken'[k])
    BY <1>1, <2>1, <2>2, TakesOne
  <2> QED
    BY <1>2, <1>3, <2>3 DEF FileInv, load_model_gate
<1>4. CASE load_kin_file
  <2>1. taken' = Append(taken, in.header.kernel_binaries)
    BY <1>4 DEF load_kin_file
  <2>0. Len(taken) = 1
    BY <1>4 DEF load_kin_file
  <2>2. ReadsAll(in, in.header.kernel_binaries)
    BY <1>4 DEF load_kin_file, LoaderReads
  <2>3. /\ taken \in Seq(Stretch)
        /\ \A k \in DOMAIN taken : ReadsAll(in, taken[k])
    BY DEF FileInv
  <2>4. PICK q \in Seq(Stretch), s \in Stretch :
          q = taken /\ s = in.header.kernel_binaries
    BY <1>1, <2>3
  <2>5. /\ Append(q, s) \in Seq(Stretch) /\ Len(Append(q, s)) <= 2
        /\ \A k \in DOMAIN Append(q, s) : ReadsAll(in, Append(q, s)[k])
    <3>1. Len(q) = 1
      BY <2>0, <2>4
    <3>2. ReadsAll(in, s)
      BY <2>2, <2>4
    <3>3. \A k \in DOMAIN q : ReadsAll(in, q[k])
      BY <2>3, <2>4
    <3>4. Len(q) < 2
      BY <3>1
    <3>5. q \in Seq(Stretch) /\ s \in Stretch
      BY <2>4
    <3> QED
      BY <3>2, <3>3, <3>4, <3>5, TakesOne, Zenon
  <2>6. taken' = Append(q, s)
    BY <2>1, <2>4
  <2> QED
    BY <1>1, <1>2, <2>5, <2>6, BoundaryAssumption DEF FileInv
<1> QED
  BY <1>3, <1>4

LEMMA CloseStep ==
  ASSUME FileInv, load_raises \/ load_returns
  PROVE  FileInv'
<1>1. in' = None /\ saved' = None /\ taken' = << >>
  BY DEF load_raises, load_returns, Close
<1>2. module' \in BOOLEAN
  BY DEF load_raises, load_returns, FileInv
<1> QED
  BY <1>1, <1>2 DEF FileInv

-----------------------------------------------------------------------------
(* Launches. *)

LEMMA LaunchStep ==
  ASSUME NEW seq_len \in Int, seq_len <= IntMax, NEW byte_size \in Nat,
         NEW block_x \in 0 .. IntSize - 1, CallInv,
         launch(seq_len, byte_size, block_x)
  PROVE  CallInv' /\ Launched(launched') /\ UNCHANGED fileVars
<1>1. block_x \in 1 .. IntSize - 1
  BY Widths DEF launch
<1>2. work_items(seq_len, byte_size) \in 1 .. IntMax
  <2>1. CASE seq_len > 0
    BY <2>1, Widths DEF work_items
  <2>2. CASE ~ seq_len > 0
    <3>1. work_items(seq_len, byte_size) = ToInt(Word(byte_size + 4 - 1) \div 4)
      BY <2>2 DEF work_items
    <3>2. Word(byte_size + 4 - 1) \div 4 \in Int
      BY Fitting, Widths
    <3>3. work_items(seq_len, byte_size) > 0
      BY DEF launch
    <3> QED
      BY <3>1, <3>2, <3>3, Fitting
  <2> QED
    BY <2>1, <2>2
<1>3. launched' = [seq_len |-> seq_len, byte_size |-> byte_size,
                   block_x |-> block_x,
                   grid_x |-> grid_x(work_items(seq_len, byte_size), block_x)]
  BY DEF launch
<1>4. Launched(launched')
  BY <1>1, <1>2, <1>3 DEF Launched
<1> QED
  BY <1>4 DEF CallInv, launch

LEMMA BoundaryStep ==
  ASSUME FileInv, CallInv, BoundaryNext
  PROVE  FileInv' /\ CallInv'
<1> USE BoundaryAssumption
<1>1. CASE OpenSaved
  BY <1>1, OpenSavedStep DEF OpenSaved, CallInv, callVars
<1>2. CASE OpenForeign
  BY <1>2, OpenForeignStep DEF OpenForeign, CallInv, callVars
<1>3. CASE load_model_gate \/ load_kin_file
  BY <1>3, GateStep DEF load_model_gate, load_kin_file, CallInv, callVars
<1>4. CASE load_raises \/ load_returns
  BY <1>4, CloseStep DEF load_raises, load_returns, CallInv, callVars
<1>5. CASE FillDescriptor \/ MakeTensor
  BY <1>5 DEF FillDescriptor, MakeTensor, FileInv, CallInv, fileVars
<1>6. CASE launch_descriptors
  <2>1. IsDescriptor /\ input.descriptor \in Descriptors
    BY <1>6 DEF launch_descriptors, IsDescriptor, CallInv
  <2>2. PICK seq_len \in SeqLens, given \in {0} \cup ByteSizes :
          launch(seq_len, effective_byte_size(given, input.descriptor.byte_size),
                 DefaultBlock)
    BY <1>6 DEF launch_descriptors
  <2>3. effective_byte_size(given, input.descriptor.byte_size) \in Nat
    <3>1. given \in Nat
      BY Widths
    <3>2. PICK d \in Descriptors : d = input.descriptor
      BY <2>1
    <3>3. d.byte_size \in Nat
      BY Widths
    <3> QED
      BY <3>1, <3>2, <3>3 DEF effective_byte_size
  <2>4. seq_len \in Int /\ seq_len <= IntMax /\ DefaultBlock \in 0 .. IntSize - 1
    BY Widths
  <2> QED
    BY <2>2, <2>3, <2>4, LaunchStep DEF FileInv, fileVars
<1>7. CASE launch_tensor
  <2>1. IsTensor /\ input.tensor \in Tensors
    BY <1>7 DEF launch_tensor, IsTensor, CallInv
  <2>2. PICK seq_len \in SeqLens, given \in {0} \cup ByteSizes :
          launch(seq_len,
                 effective_byte_size(given, DescriptorOf(input.tensor).byte_size),
                 DefaultBlock)
    BY <1>7 DEF launch_tensor
  <2>3. DescriptorOf(input.tensor).byte_size \in Nat
    <3>1. /\ numel(input.tensor) \in Nat
          /\ input.tensor.dtype \in DOMAIN element_size
      <4>1. TorchTensor(input.tensor) /\ input.tensor.dtype \in DOMAIN element_size
        BY <2>1
      <4> HIDE BoundaryAssumption
      <4>2. numel(input.tensor) \in 0 .. Int64Max
        BY <4>1, Zenon DEF TorchTensor
      <4> QED
        BY <4>1, <4>2, Widths
    <3>2. element_size[input.tensor.dtype] \in Nat
      BY <3>1 DEF element_size
    <3>3. numel(input.tensor) * element_size[input.tensor.dtype] \in Int
      BY <3>1, <3>2
    <3> QED
      BY <3>3, Fitting, Widths DEF DescriptorOf
  <2>4. effective_byte_size(given, DescriptorOf(input.tensor).byte_size) \in Nat
    BY <2>3, Widths DEF effective_byte_size
  <2>5. seq_len \in Int /\ seq_len <= IntMax /\ DefaultBlock \in 0 .. IntSize - 1
    BY Widths
  <2> QED
    BY <2>2, <2>4, <2>5, LaunchStep DEF FileInv, fileVars
<1>8. CASE launch_descriptor
  <2>1. PICK seq_len \in SeqLens, byte_size \in ByteSizes, block_x \in BlockSizes :
          launch(seq_len, byte_size, block_x)
    BY <1>8 DEF launch_descriptor
  <2>2. /\ seq_len \in Int /\ seq_len <= IntMax /\ byte_size \in Nat
        /\ block_x \in 0 .. IntSize - 1
    BY Widths
  <2> QED
    BY <2>1, <2>2, LaunchStep DEF FileInv, fileVars
<1>9. CASE launch_returns
  BY <1>9 DEF launch_returns, FileInv, CallInv, fileVars
<1> QED
  BY <1>1, <1>2, <1>3, <1>4, <1>5, <1>6, <1>7, <1>8, <1>9 DEF BoundaryNext

-----------------------------------------------------------------------------
(* The loop of generate. *)

LEMMA InitIInv == Init => IInv
<1> SUFFICES ASSUME Init PROVE IInv
  OBVIOUS
<1>1. FileInv
  <2>1. in = None /\ saved = None /\ module = FALSE /\ taken = << >>
    BY DEF Init, BoundaryInit
  <2>2. /\ in \in KinFile \cup {None}
        /\ in = None => saved = None /\ taken = << >>
    BY <2>1, Zenon
  <2>3. /\ << >> \in Seq(Stretch) /\ Len(<< >>) <= 2
        /\ \A k \in DOMAIN << >> : ReadsAll(in, << >>[k])
    OBVIOUS
  <2>4. /\ taken \in Seq(Stretch) /\ Len(taken) <= 2
        /\ \A k \in DOMAIN taken : ReadsAll(in, taken[k])
    BY <2>1, <2>3, Zenon
  <2>5. module \in BOOLEAN
    BY <2>1, Zenon
  <2>6. ~ saved # None
    BY <2>1, Zenon
  <2> QED
    BY <2>2, <2>4, <2>5, <2>6, Zenon DEF FileInv
<1>2. CallInv
  BY DEF Init, BoundaryInit, CallInv
<1>3. LoopInv
  BY RuntimeAssumption, Widths DEF Init, LoopInv, LoopTypeOK
<1> QED
  BY <1>1, <1>2, <1>3 DEF IInv

LEMMA GenerateStep ==
  ASSUME IInv, generate
  PROVE  IInv'
<1>1. FileInv' /\ CallInv'
  BY DEF IInv, generate, FileInv, CallInv, Launched, boundaryVars, fileVars,
         callVars
<1>2. /\ call' \in Call /\ at' = "loop" /\ logits' = logits
      /\ tokens' = call'.prompt /\ left' = call'.max_new_tokens
      /\ tokens' < max_seq_len
  BY DEF generate
<1>3. PICK n \in PromptLens, m \in MaxNewTokens :
        n < max_seq_len /\ tokens' = n /\ left' = m
  BY <1>2 DEF Call
<1>4. tokens' \in 0 .. max_seq_len /\ tokens' > 0 /\ left' \in Nat
  BY <1>2, <1>3, RuntimeAssumption, Widths
<1>5. logits' \in {"unwritten", "awaited", "written"}
  BY <1>2 DEF IInv, LoopInv, LoopTypeOK
<1>6. LoopTypeOK'
  BY <1>2, <1>4, <1>5, Zenon DEF LoopTypeOK
<1>7. LoopInv'
  BY <1>2, <1>4, <1>6 DEF LoopInv
<1> QED
  BY <1>1, <1>7 DEF IInv

LEMMA LaunchBackendStep ==
  ASSUME IInv, launch_backend
  PROVE  IInv'
<1>1. /\ tokens \in 1 .. max_seq_len - 1 /\ max_seq_len \in 1 .. IntMax
      /\ left \in Nat \ {0} /\ at' = "launched"
      /\ UNCHANGED <<call, tokens, left>>
  BY RuntimeAssumption, Widths
     DEF IInv, LoopInv, LoopTypeOK, launch_backend, MayGoOn
<1>2. Settles => call.device = "cuda"
  BY DEF launch_backend, convert_tensors, validate_device_residency, Settles
<1>3. /\ tokens \in Int /\ tokens <= IntMax /\ tokens > 0
      /\ DefaultBlock \in 0 .. IntSize - 1 /\ DefaultBlock \in 1 .. IntMax + 1
  BY <1>1, BoundaryAssumption, Widths
<1>4. ASSUME NEW byte_size \in Nat, launch(tokens, byte_size, DefaultBlock)
      PROVE  /\ FileInv' /\ CallInv'
             /\ launched'.grid_x * launched'.block_x >= tokens
  <2>1. CallInv' /\ UNCHANGED fileVars
    BY <1>3, <1>4, LaunchStep DEF IInv
  <2>2. FileInv'
    BY <2>1 DEF IInv, FileInv, fileVars
  <2>3. launched' = [seq_len |-> tokens, byte_size |-> byte_size,
                     block_x |-> DefaultBlock,
                     grid_x |-> grid_x(tokens, DefaultBlock)]
    BY <1>3, <1>4 DEF launch, work_items
  <2>4. grid_x(tokens, DefaultBlock) * DefaultBlock >= tokens
    BY <1>1, <1>3, GridCovers, Widths
  <2> QED
    BY <2>1, <2>2, <2>3, <2>4
<1>5. CASE LaunchGraph
  <2>1. FileInv' /\ CallInv'
    BY <1>5 DEF IInv, LaunchGraph, FileInv, CallInv, Launched, fileVars
  <2>2. ~ Settles' /\ logits' = logits
    BY <1>1, <1>5 DEF LaunchGraph, Settles
  <2> QED
    BY <1>1, <2>1, <2>2 DEF IInv, LoopInv, LoopTypeOK
<1>6. CASE LaunchRouter
  <2>1. /\ launch(tokens, tokens * element_size["INT32"], DefaultBlock)
        /\ logits' = "awaited"
    BY <1>6 DEF LaunchRouter
  <2>2. tokens * element_size["INT32"] \in Nat
    BY <1>1, Widths DEF element_size
  <2>3. /\ FileInv' /\ CallInv'
        /\ launched'.grid_x * launched'.block_x >= tokens
    BY <1>4, <2>1, <2>2
  <2> QED
    BY <1>1, <1>2, <2>1, <2>3 DEF IInv, LoopInv, LoopTypeOK, Settles
<1>7. CASE LaunchAOTEngine
  <2>1. /\ launch(tokens, 0, DefaultBlock)
        /\ logits' \in {"unwritten", "awaited"}
        /\ ~ Settles'
    BY <1>1, <1>7 DEF LaunchAOTEngine, Settles
  <2>2. FileInv' /\ CallInv'
    BY <1>4, <2>1
  <2> QED
    BY <1>1, <2>1, <2>2 DEF IInv, LoopInv, LoopTypeOK
<1> QED
  BY <1>5, <1>6, <1>7 DEF launch_backend

(* The device writes, and the runtime waits for it. *)
LEMMA DeviceStep ==
  ASSUME IInv, DeviceWrites \/ synchronize
  PROVE  IInv'
<1>1. UNCHANGED boundaryVars
  BY DEF DeviceWrites, synchronize
<1>2. FileInv' /\ CallInv'
  BY <1>1 DEF IInv, FileInv, CallInv, Launched, boundaryVars, fileVars, callVars
<1>3. launched' = launched /\ UNCHANGED <<call, tokens, left>>
  BY <1>1 DEF boundaryVars, callVars, DeviceWrites, synchronize
<1>4. CASE DeviceWrites
  BY <1>2, <1>3, <1>4 DEF DeviceWrites, IInv, LoopInv, LoopTypeOK, Settles
<1>5. CASE synchronize
  <2>1. /\ at = "launched" /\ at' = "choose" /\ logits' = logits
        /\ call.device = "cuda" => logits # "awaited"
    BY <1>5 DEF synchronize
  <2>2. Settles => logits = "written"
    BY <2>1 DEF IInv, LoopInv, LoopTypeOK
  <2> QED
    BY <1>2, <1>3, <2>1, <2>2 DEF IInv, LoopInv, LoopTypeOK, Settles
<1> QED
  BY <1>4, <1>5

LEMMA ChooseStep ==
  ASSUME IInv, ChooseToken
  PROVE  IInv'
<1>1. FileInv' /\ CallInv'
  BY DEF IInv, ChooseToken, FileInv, CallInv, fileVars
<1>2. /\ tokens \in 1 .. max_seq_len - 1 /\ left \in Nat \ {0}
      /\ tokens' = tokens + 1 /\ left' = left - 1
      /\ at' = "loop" /\ logits' = "unwritten" /\ call' = call
  BY RuntimeAssumption, Widths DEF IInv, LoopInv, LoopTypeOK, ChooseToken
<1>3. tokens' \in 1 .. max_seq_len /\ left' \in Nat
  BY <1>2, RuntimeAssumption, Widths
<1> QED
  BY <1>1, <1>2, <1>3 DEF IInv, LoopInv, LoopTypeOK

LEMMA LeaveStep ==
  ASSUME IInv, Leave
  PROVE  IInv'
<1>1. FileInv' /\ CallInv'
  BY DEF IInv, Leave, FileInv, CallInv, fileVars
<1>2. LoopInv'
  BY RuntimeAssumption, Widths DEF Leave, LoopInv, LoopTypeOK
<1> QED
  BY <1>1, <1>2 DEF IInv

LEMMA StepIInv == IInv /\ [Next]_vars => IInv'
<1> SUFFICES ASSUME IInv, [Next]_vars PROVE IInv'
  OBVIOUS
<1>1. CASE at = "idle" /\ BoundaryNext /\ UNCHANGED runtimeVars
  <2>1. FileInv' /\ CallInv'
    BY <1>1, BoundaryStep DEF IInv
  <2>2. LoopInv'
    BY <1>1 DEF IInv, LoopInv, LoopTypeOK, runtimeVars
  <2> QED
    BY <2>1, <2>2 DEF IInv
<1>2. CASE generate
  BY <1>2, GenerateStep
<1>3. CASE launch_backend
  BY <1>3, LaunchBackendStep
<1>4. CASE DeviceWrites \/ synchronize
  BY <1>4, DeviceStep
<1>5. CASE ChooseToken
  BY <1>5, ChooseStep
<1>6. CASE generate_returns \/ generate_raises
  BY <1>6, LeaveStep DEF generate_returns, generate_raises
<1>7. CASE UNCHANGED vars
  BY <1>7 DEF vars, boundaryVars, runtimeVars, fileVars, callVars, IInv,
              FileInv, CallInv, Launched, LoopInv, LoopTypeOK, Settles
<1> QED
  BY <1>1, <1>2, <1>3, <1>4, <1>5, <1>6, <1>7 DEF Next

-----------------------------------------------------------------------------
(* For words of any width, what is known of the call at hand is invariant. *)
THEOREM Invariance == Spec => []IInv
<1>1. Init => IInv
  BY InitIInv
<1>2. IInv /\ [Next]_vars => IInv'
  BY StepIInv
<1> QED
  BY <1>1, <1>2, PTL DEF Spec

(* Every variable keeps its type; a grid is an unsigned int. *)
THEOREM TypeCorrect == Spec => []TypeOK
<1>1. ASSUME IInv PROVE TypeOK
  <2>1. /\ in # None => in.size \in Nat /\ in.magic \in BOOLEAN
        /\ saved \in SavedSizes \cup {None} /\ Len(taken) <= 2
        /\ module \in BOOLEAN
    BY <1>1, Widths DEF IInv, FileInv, KinFile
  <2>2. input # None => IsDescriptor \/ IsTensor
    BY <1>1 DEF IInv, CallInv, IsDescriptor, IsTensor
  <2>3. ASSUME launched # None PROVE launched.grid_x \in 0 .. IntSize - 1
    <3>1. Launched(launched)
      BY <1>1, <2>3 DEF IInv, CallInv
    <3>2. PICK items \in 1 .. IntMax, block_x \in 1 .. IntSize - 1 :
            launched.grid_x = grid_x(items, block_x)
      BY <3>1 DEF Launched
    <3>3. Unsigned(items + block_x - 1) \in 0 .. IntSize - 1
      BY Fitting, Widths
    <3>4. Unsigned(items + block_x - 1) \div block_x
            \in 0 .. Unsigned(items + block_x - 1)
      BY <3>3, Quotient, Widths
    <3> QED
      BY <3>2, <3>3, <3>4, Widths DEF grid_x
  <2> QED
    BY <1>1, <2>1, <2>2, <2>3
       DEF IInv, LoopInv, LoopTypeOK, TypeOK, BoundaryTypeOK
<1> QED
  BY <1>1, Invariance, PTL

(* Nothing is taken from outside a file, although the sum by which the gate*)
(* looks at the header may wrap (AOTEngine.cpp 140-150 and 367-377).       *)
THEOREM NothingBeyondFile == Spec => []TakenLiesInFile
<1>1. ASSUME IInv, NEW k \in DOMAIN taken
      PROVE  taken[k].size = 0 \/ taken[k].offset + taken[k].size <= in.size
  <2>1. in \in KinFile /\ taken[k] \in Stretch /\ ReadsAll(in, taken[k])
    BY <1>1 DEF IInv, FileInv
  <2> QED
    BY <2>1, ReadInFull
<1>2. IInv => TakenLiesInFile
  BY <1>1 DEF TakenLiesInFile
<1> QED
  BY <1>2, Invariance, PTL

(* What this code saved is loaded if and only if the file is whole, as the *)
(* model of AOTEngine has it (AOTEngine.cpp 77-103 and 360-377).           *)
THEOREM WholeFilesLoad == Spec => []SectionsDecide
<1>1. ASSUME IInv, saved # None
      PROVE  /\ GateReads(in) <=> in.size >= HeaderSize + saved.metadata
             /\ LoaderReads(in) <=>
                  in.size = HeaderSize + saved.metadata + saved.kernels
  <2>1. PICK m \in Nat, n \in Nat, h \in Nat, size \in Nat :
          /\ m = saved.metadata /\ n = saved.kernels /\ h = HeaderSize
          /\ size = in.size /\ size <= h + m + n /\ h + m + n <= Int64Max
    <3>1. saved \in SavedSizes /\ in.size <= HeaderSize + saved.metadata + saved.kernels
      BY <1>1 DEF IInv, FileInv
    <3>2. in.size \in Nat
      BY <1>1, Widths DEF IInv, FileInv, KinFile
    <3>3. /\ saved.metadata \in Nat /\ saved.kernels \in Nat
          /\ HeaderSize + saved.metadata + saved.kernels <= Int64Max
      BY <3>1, BoundaryAssumption
    <3> HIDE BoundaryAssumption
    <3> QED
      BY <3>1, <3>2, <3>3, FormatAssumption
  <2>2. in \in KinFile /\ in.magic
    BY <1>1 DEF IInv, FileInv
  <2>3. PICK metadata \in Stretch, kernels \in Stretch :
          /\ metadata = in.header.op_graph_data
          /\ kernels = in.header.kernel_binaries
    BY <2>2 DEF KinFile
  <2>4. /\ metadata.offset = h /\ metadata.size = m
        /\ kernels.offset = h + m /\ kernels.size = n
    BY <1>1, <2>1, <2>3 DEF IInv, FileInv, KinHeader
  <2>5. EndOf(metadata) = h + m /\ EndOf(kernels) = h + m + n
    <3>1. h + m \in 0 .. SizeMax /\ h + m + n \in 0 .. SizeMax
      BY <2>1, Widths
    <3> QED
      BY <2>4, <3>1, Fitting DEF EndOf
  <2>6. h + m <= size => ReadsAll(in, metadata)
    BY <2>1, <2>2, <2>4, ReadInFull, Widths
  <2>7. h + m + n <= size => ReadsAll(in, kernels)
    BY <2>1, <2>2, <2>4, ReadInFull, Widths
  <2>8. HeaderIsThere(in) <=> h <= size
    BY <2>1, <2>2 DEF HeaderIsThere
  <2>9. GateReads(in) <=> size >= h + m
    BY <2>1, <2>3, <2>5, <2>6, <2>8 DEF GateReads
  <2>10. LoaderReads(in) <=> size = h + m + n
    BY <2>1, <2>3, <2>4, <2>5, <2>7, <2>8 DEF LoaderReads, StretchFits
  <2> QED
    BY <2>1, <2>9, <2>10
<1>2. IInv => SectionsDecide
  BY <1>1 DEF SectionsDecide
<1> QED
  BY <1>2, Invariance, PTL

(* The grid covers the work and has no block to spare, as long as the block*)
(* is no more than an int counts, and so are the items that come from a    *)
(* size (AOTEngine.cpp 515-521).                                           *)
THEOREM GridsCover == Spec => []GridCoversWork
<1>1. ASSUME IInv, launched # None,
             IsInt(launched.seq_len, launched.byte_size, launched.block_x)
      PROVE  LET items == IF launched.seq_len > 0 THEN launched.seq_len
                          ELSE (launched.byte_size + 3) \div 4 IN
             /\ launched.grid_x * launched.block_x >= items
             /\ (launched.grid_x - 1) * launched.block_x < items
  <2> DEFINE items == IF launched.seq_len > 0 THEN launched.seq_len
                      ELSE (launched.byte_size + 3) \div 4
  <2>1. Launched(launched)
    BY <1>1 DEF IInv, CallInv
  <2>2. work_items(launched.seq_len, launched.byte_size) = items
    BY <1>1, <2>1, ItemsOf DEF Launched, IsInt, work_items
  <2>3. items \in 1 .. IntMax /\ launched.block_x \in 1 .. IntMax + 1
    BY <1>1, <2>1, <2>2, Widths DEF Launched, IsInt
  <2>4. launched.grid_x = grid_x(items, launched.block_x)
    BY <2>1, <2>2 DEF Launched
  <2> HIDE DEF items
  <2>5. /\ launched.grid_x * launched.block_x >= items
        /\ (launched.grid_x - 1) * launched.block_x < items
    BY <2>3, <2>4, GridCovers
  <2> QED
    BY <2>5 DEF items
<1>2. IInv => GridCoversWork
  BY <1>1 DEF GridCoversWork
<1> QED
  BY <1>2, Invariance, PTL

(* What a descriptor that passes describes has no gaps, whatever its number*)
(* of dimensions, their sizes and their strides, and its size is right     *)
(* unless that is no size_t (python_bindings.cpp 70, 88-178).              *)
THEOREM ValidDescriptorsAreDense == Spec => []DescriptorIsDense
<1>1. ASSUME IInv, IsDescriptor, validate_tensor_descriptor(input.descriptor)
      PROVE  LET d == input.descriptor
                 bytes == Extent(d.shape) * element_size[d.dtype] IN
             /\ \A ix \in Indexes(d.shape) :
                  Offset(ix, d.strides) = RowMajor(ix, d.shape)
             /\ bytes <= SizeMax => d.byte_size = bytes
  <2>1. PICK d \in Descriptors : d = input.descriptor
    BY <1>1 DEF IInv, CallInv, IsDescriptor
  <2>2. /\ d.shape \in Seq(Int) /\ d.strides \in Seq(Int)
        /\ d.dtype \in DOMAIN element_size /\ validate_tensor_descriptor(d)
    BY <1>1, <2>1, BoundaryAssumption
  <2>3. /\ Dense(d.shape, d.strides)
        /\ Extent(d.shape) * element_size[d.dtype] <= SizeMax
             => d.byte_size = Extent(d.shape) * element_size[d.dtype]
    BY <2>2, ValidDescriptor
  <2> QED
    BY <2>1, <2>3 DEF Dense
<1>2. IInv => DescriptorIsDense
  BY <1>1 DEF DescriptorIsDense
<1> QED
  BY <1>2, Invariance, PTL

(* Whatever torch.Tensor is given, the bindings and orchestrator.py judge  *)
(* it alike, and what is launched on lies in its storage                   *)
(* (orchestrator.py 127-182, python_bindings.cpp 176-219).                 *)
THEOREM TensorsAreJudgedAlike == Spec => []TensorChecksAgree
<1>1. ASSUME IInv, IsTensor
      PROVE  LET t == input.tensor IN
             /\ t.dtype # "UNKNOWN" =>
                  (make_descriptor_from_tensor(t)
                     <=> validate_tensor_for_zero_copy(t, t.dtype))
             /\ make_descriptor_from_tensor(t) =>
                  /\ DescriptorOf(t).byte_size = numel(t) * element_size[t.dtype]
                  /\ DescriptorOf(t).byte_size <= t.nbytes
  <2>1. PICK t \in Tensors : t = input.tensor
    BY <1>1 DEF IInv, CallInv, IsTensor
  <2>2. TorchTensor(t) /\ t.dtype \in DOMAIN element_size
    BY BoundaryAssumption
  <2> HIDE BoundaryAssumption
  <2> QED
    BY <2>1, <2>2, ChecksAgree
<1>2. IInv => TensorChecksAgree
  BY <1>1 DEF TensorChecksAgree
<1> QED
  BY <1>2, Invariance, PTL

(* With the router, whatever the window and the prompt, a token is only    *)
(* chosen from logits that the device has finished to write, by a launch   *)
(* with a grid for all the tokens (orchestrator.py 101-121, 374-388,       *)
(* 414-417 and 440-444).                                                   *)
THEOREM TokensAreSettled == Spec => []TokensFromWrittenLogits
<1>1. IInv => TokensFromWrittenLogits
  BY DEF IInv, LoopInv, Settles, TokensFromWrittenLogits
<1> QED
  BY <1>1, Invariance, PTL

=============================================================================
