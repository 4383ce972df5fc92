--------------------------- MODULE MCGraphWrapper ---------------------------
(***************************************************************************)
(* GraphWrapper for TLC: with two blocks of two tokens, shapes that need   *)
(* one, both and more than there are, and two batch sizes.                 *)
(***************************************************************************)
EXTENDS GraphWrapper

MCShapes ==
  {[batch_size |-> 1, seq_len |-> n] : n \in {1, 3}}
    \cup {[batch_size |-> 2, seq_len |-> 5]}

=============================================================================
