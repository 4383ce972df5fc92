---------------------------- MODULE MCAOTEngine ----------------------------
(***************************************************************************)
(* AOTEngine for TLC: genuine kernels under two names and one under no     *)
(* known name, and a mock.                                                 *)
(***************************************************************************)
EXTENDS AOTEngine

MCSymbols == <<"fused", "kernel">>

MCFused   == "fused"

MCBinaries ==
  {[genuine |-> TRUE, machine |-> "EM_AMDGPU", symbols |-> ss] :
     ss \in {{"fused"}, {"kernel"}, {}}}
    \cup {[genuine |-> FALSE, machine |-> "EM_AMDGPU",
           symbols |-> {"fused", "kernel"}]}

=============================================================================
