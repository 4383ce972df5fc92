----------------------------- MODULE KinFormat -----------------------------
(***************************************************************************)
(* The bytes of a .kin file (AOTEngine.cpp): where Serializer writes the   *)
(* metadata and the kernels, and which bytes the gate of load_model and    *)
(* load_kin_file take for them, with the width of the integers in between. *)
(* Contents are left out; whether the magic number is right is known.      *)
(*                                                                         *)
(* A file is [size, magic, header]; no byte of the header is read when size*)
(* is below HeaderSize.  A stretch of a file is [offset, size].            *)
(***************************************************************************)
EXTENDS MachineWords

CONSTANT HeaderSize          \* sizeof(KinHeader)

ASSUME FormatAssumption == HeaderSize \in Nat

Smaller(m, n) == IF m <= n THEN m ELSE n
Larger(m, n)  == IF m <= n THEN n ELSE m

(* What save_kin_file writes, if nothing keeps it from writing it all. *)
KinHeader(metadata_size, kernels_size) ==
  [op_graph_data   |-> [offset |-> HeaderSize, size |-> metadata_size],
   kernel_binaries |-> [offset |-> HeaderSize + metadata_size,
                        size   |-> kernels_size]]

EndOf(stretch) == Word(stretch.offset + stretch.size)

(* A vector of this many bytes can be allocated: not so one whose size is  *)
(* negative as a difference of pointers.                                   *)
Allocatable(size) == size <= Int64Max

(* seekg takes a signed offset; a read ends with the file. *)
gcount(file, stretch) ==
  IF ToInt64(stretch.offset) < 0 THEN 0
  ELSE Smaller(stretch.size, Larger(0, file.size - stretch.offset))

(* Fault: the number of bytes that came is not looked at. *)
ReadsAll_unchecked(file, stretch) == Allocatable(stretch.size)

ReadsAll(file, stretch) ==
  /\ Allocatable(stretch.size)
  /\ gcount(file, stretch) = stretch.size

HeaderIsThere(file) == file.size >= HeaderSize /\ file.magic

(* The sum may wrap here: what does not fit is left to the read. *)
GateReads(file) ==
  LET metadata == file.header.op_graph_data IN
  /\ HeaderIsThere(file)
  /\ EndOf(metadata) <= file.size
  /\ ReadsAll(file, metadata)

(* Fault: the last byte of the file is left out. *)
StretchFits_strict(file, stretch) ==
  /\ EndOf(stretch) >= stretch.offset
  /\ EndOf(stretch) < file.size

(* load_kin_file looks for sums that wrap, of both stretches. *)
StretchFits(file, stretch) ==
  /\ EndOf(stretch) >= stretch.offset
  /\ EndOf(stretch) <= file.size

LoaderReads(file) ==
  LET kernels == file.header.kernel_binaries IN
  /\ HeaderIsThere(file)
  /\ StretchFits(file, file.header.op_graph_data)
  /\ StretchFits(file, kernels)
  /\ ReadsAll(file, kernels)

=============================================================================
