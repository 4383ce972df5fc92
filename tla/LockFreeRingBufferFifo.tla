----------------------- MODULE LockFreeRingBufferFifo -----------------------
(***************************************************************************)
(* The ring, called by one producer and one consumer at a time, implements *)
(* BoundedFifo with Size - 1 places.  A push takes effect when its         *)
(* compare-exchange moves tail, before the item is in the slot; a pop when *)
(* its compare-exchange moves head.                                        *)
(***************************************************************************)
EXTENDS LockFreeRingBuffer, Sequences

SlotItem(i) ==
  IF \E p \in Producers : Writing(p, i)
    THEN reg[CHOOSE p \in Producers : Writing(p, i)]
    ELSE data[i]

(* The slots from head to tail, round the end of the ring. *)
Count    == IF head <= tail THEN tail - head ELSE tail + Size - head
Place(k) == IF head + k <= Size THEN head + k - 1 ELSE head + k - 1 - Size

Queued == [k \in 1 .. Count |-> SlotItem(Place(k))]

Outcome(t) ==
  CASE pc[t] \in {"push_head", "push_cas"} ->
         [state |-> "push", value |-> reg[t]]
    [] pc[t] \in {"push_write", "push_publish"} ->
         [state |-> "returned", value |-> "pushed"]
    [] pc[t] \in {"pop_tail", "pop_readable", "pop_copy", "pop_cas"} ->
         [state |-> "pop"]
    [] pc[t] \in {"pop_clear", "idle"} ->
         [state |-> "returned", value |-> reg[t]]

Fifo ==
  INSTANCE BoundedFifo WITH
    Capacity <- Size - 1,
    queue    <- Queued,
    outcome  <- [t \in Threads |-> Outcome(t)]

(* Items come out in the order they went in, none is lost, duplicated or   *)
(* changed, "full" is said only of a full ring and "empty" only of an empty*)
(* one (GraphWrapper.h 43-86).                                             *)
ImplementsFifo == Fifo!Spec

=============================================================================
