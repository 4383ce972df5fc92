-------------------------- MODULE MCKineticRuntime --------------------------
(***************************************************************************)
(* KineticRuntime and the native boundary for TLC: a size_t of 6 bits, an  *)
(* int of 3, a header of one unit.  Headers hold small and huge numbers;   *)
(* shapes have up to three dimensions, with an empty one, a negative one,  *)
(* products that are no int64_t and products that are no size_t.           *)
(***************************************************************************)
EXTENDS KineticRuntime

MCSavedSizes == [metadata : 0 .. 2, kernels : 0 .. 2]

Fields == {0, 1, 2, 3, 31, 32, 62, 63}

Stretches == [offset : Fields, size : Fields]

MCForeignFiles ==
  [size : 0 .. 4, magic : {TRUE},
   header : [op_graph_data : Stretches, kernel_binaries : Stretches]]
  \cup [size : {4}, magic : {FALSE}, header : {KinHeader(1, 1)}]

Sizes   == {-1, 0, 1, 2, 3, 7}
Strides == {0, 1, 2, 3, 7}

(* Shapes with strides, not necessarily as many. *)
Layouts ==
  {<< << >>, << >> >>, << << >>, <<3>> >>, << <<2>>, << >> >>, << <<2, 3>>, <<1>> >>}
  \cup {<<sh, st>> : sh \in [1 .. 1 -> Sizes], st \in [1 .. 1 -> Strides]}
  \cup {<<sh, st>> : sh \in [1 .. 2 -> Sizes], st \in [1 .. 2 -> Strides]}
  \cup {<<sh, st>> : sh \in [1 .. 3 -> {1, 2, 7}], st \in [1 .. 3 -> {1, 2, 14}]}

MCDescriptors ==
  {[allocated |-> TRUE, shape |-> l[1], strides |-> l[2], dtype |-> type,
    byte_size |-> n] :
     l \in Layouts, type \in {"INT8", "FLOAT32"},
     n \in {0, 1, 2, 4, 6, 8, 12, 14, 20, 21, 24, 28}}
  \cup [allocated : BOOLEAN, shape : {<<2>>}, strides : {<<1>>},
        dtype : {"INT8", "UNKNOWN"}, byte_size : {0, 2}]

Views == {l \in Layouts : Len(l[1]) = Len(l[2]) /\ \A k \in DOMAIN l[1] : l[1][k] >= 0}

MCTensors ==
  {t \in {[allocated |-> TRUE, shape |-> l[1], strides |-> l[2], dtype |-> type,
           storage_offset |-> off, nbytes |-> n] :
            l \in Views, type \in {"INT8", "FLOAT32"}, off \in {0, 1},
            n \in {0, 4, 14, 31}} : TorchTensor(t)}
  \cup [allocated : BOOLEAN, shape : {<<2>>}, strides : {<<1>>},
        dtype : {"INT8", "UNKNOWN"}, storage_offset : {0}, nbytes : {2}]

MCSeqLens    == {-1, 0, 1, 3}
MCByteSizes  == {0, 1, 4, 5, 11, 12, 13, 17, 40, 61, 63}
MCBlockSizes == {0, 1, 2, 4, 7}

=============================================================================
