------------------------ MODULE MCLockFreeRingBuffer ------------------------
(***************************************************************************)
(* The ring for TLC: the specification, the FIFO it implements and the     *)
(* inductive invariant of the proofs, on the threads, the items and the    *)
(* number of slots the configurations choose.                              *)
(***************************************************************************)
EXTENDS LockFreeRingBufferFifo, LockFreeRingBufferProofs
=============================================================================
