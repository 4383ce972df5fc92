---------------------------- MODULE BoundedFifo ----------------------------
(***************************************************************************)
(* What a LockFreeRingBuffer promises its callers: a FIFO queue of bounded *)
(* capacity on which every push and every pop takes effect in one instant  *)
(* between its invocation and its return.  A push that finds the queue     *)
(* full, and a pop that finds it empty, say so and change nothing.         *)
(* LockFreeRingBuffer is shown to implement this module.                   *)
(***************************************************************************)
EXTENDS Naturals, Sequences

CONSTANTS
  Producers,   \* threads that call push
  Consumers,   \* threads that call pop
  Items,       \* what can be queued
  Capacity     \* the most items the queue holds, a natural number

VARIABLES
  queue,       \* the queued items, oldest first
  outcome      \* per thread: its pending call, or what its last call returned

vars == <<queue, outcome>>

PendingPush(v) == [state |-> "push", value |-> v]
PendingPop     == [state |-> "pop"]
Returned(r)    == [state |-> "returned", value |-> r]

IsIdle(t) == outcome[t].state = "returned"

Init ==
  /\ queue = << >>
  /\ outcome = [t \in Producers \cup Consumers |-> Returned("none")]

(* A producer calls push(v). *)
InvokePush(p, v) ==
  /\ IsIdle(p)
  /\ outcome' = [outcome EXCEPT ![p] = PendingPush(v)]
  /\ UNCHANGED queue

(* The push appends its item ... *)
PushAppends(p) ==
  /\ outcome[p].state = "push"
  /\ Len(queue) < Capacity
  /\ queue' = Append(queue, outcome[p].value)
  /\ outcome' = [outcome EXCEPT ![p] = Returned("pushed")]

(* ... or finds the queue full. *)
PushFindsFull(p) ==
  /\ outcome[p].state = "push"
  /\ Len(queue) = Capacity
  /\ outcome' = [outcome EXCEPT ![p] = Returned("full")]
  /\ UNCHANGED queue

(* A consumer calls pop. *)
InvokePop(c) ==
  /\ IsIdle(c)
  /\ outcome' = [outcome EXCEPT ![c] = PendingPop]
  /\ UNCHANGED queue

(* The pop removes and returns the oldest item ... *)
PopTakes(c) ==
  /\ outcome[c].state = "pop"
  /\ queue # << >>
  /\ outcome' = [outcome EXCEPT ![c] = Returned(Head(queue))]
  /\ queue' = Tail(queue)

(* ... or finds the queue empty. *)
PopFindsEmpty(c) ==
  /\ outcome[c].state = "pop"
  /\ queue = << >>
  /\ outcome' = [outcome EXCEPT ![c] = Returned("empty")]
  /\ UNCHANGED queue

Next ==
  \/ \E p \in Producers :
       \/ \E v \in Items : InvokePush(p, v)
       \/ PushAppends(p)
       \/ PushFindsFull(p)
  \/ \E c \in Consumers :
       \/ InvokePop(c)
       \/ PopTakes(c)
       \/ PopFindsEmpty(c)

Spec == Init /\ [][Next]_vars

=============================================================================
