--------------------------- MODULE InferenceQueue ---------------------------
(***************************************************************************)
(* InferenceQueue of include/AsyncAPI.h: a ring of requests on their way to*)
(* the worker and a ring of responses on their way back.                   *)
(*                                                                         *)
(* Each ring is a bounded FIFO whose operations are atomic, which is what  *)
(* LockFreeRingBufferFifo shows of a ring with one producer and one        *)
(* consumer at a time.  Here these are the threads that hold the GIL (the  *)
(* bindings of submit and poll keep it) and the one worker thread.         *)
(***************************************************************************)
EXTENDS Naturals, Sequences

CONSTANTS
  ReqCapacity,    \* 1024 - 1: a ring keeps one slot free
  RespCapacity    \* 4096 - 1

ASSUME CapacityAssumption ==
  ReqCapacity \in Nat \ {0} /\ RespCapacity \in Nat \ {0}

VARIABLES
  request_queue,
  response_queue

queueVars == <<request_queue, response_queue>>

QueueInit == request_queue = << >> /\ response_queue = << >>

(* submit and push_response spin until the push succeeds: while the ring is*)
(* full these are disabled.                                                *)
Submit(req) ==
  /\ Len(request_queue) < ReqCapacity
  /\ request_queue' = Append(request_queue, req)
  /\ UNCHANGED response_queue

(* Fault: a full ring is not noticed. *)
PushResponseUnchecked(resp) ==
  /\ response_queue' = Append(response_queue, resp)
  /\ UNCHANGED request_queue

PushResponse(resp) ==
  /\ Len(response_queue) < RespCapacity
  /\ response_queue' = Append(response_queue, resp)
  /\ UNCHANGED request_queue

FetchRequest(req) ==
  /\ request_queue # << >>
  /\ req = Head(request_queue)
  /\ request_queue' = Tail(request_queue)
  /\ UNCHANGED response_queue

(* poll returns a response only if it can build the Python str of it.      *)
Poll(resp) ==
  /\ response_queue # << >>
  /\ resp = Head(response_queue)
  /\ resp.decodable
  /\ response_queue' = Tail(response_queue)
  /\ UNCHANGED request_queue

(* The token is one byte.  If it is no UTF-8 the conversion raises, after  *)
(* the response has been popped.                                           *)
PollRaises(resp) ==
  /\ response_queue # << >>
  /\ resp = Head(response_queue)
  /\ ~ resp.decodable
  /\ response_queue' = Tail(response_queue)
  /\ UNCHANGED request_queue

PollFindsNothing == response_queue = << >> /\ UNCHANGED queueVars

=============================================================================
