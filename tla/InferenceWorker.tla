-------------------------- MODULE InferenceWorker --------------------------
(***************************************************************************)
(* InferenceWorker of include/AsyncAPI.h: the thread that fetches requests,*)
(* launches the model once per token and pushes one response per launch.   *)
(***************************************************************************)
EXTENDS InferenceQueue

CONSTANTS
  Requests,         \* request ids (uuids)
  NoRequest,
  MayMisdecode      \* a model may produce a token byte that is no UTF-8

ASSUME WorkerAssumption ==
  /\ NoRequest \notin Requests
  /\ MayMisdecode \in BOOLEAN

VARIABLES
  stop,     \* stop_
  wpc,      \* where the thread is in run()
  req,      \* the local `req`: [id, max_tokens]
  tok       \* the local `i`: tokens generated so far

workerVars == <<stop, wpc, req, tok>>

Idle == [id |-> NoRequest, max_tokens |-> 0]

WorkerInit == stop = FALSE /\ wpc = "check" /\ req = Idle /\ tok = 0

(* Fault: the thread goes on while there are requests. *)
CheckStopWhenDrained ==
  /\ wpc = "check"
  /\ wpc' = IF stop /\ request_queue = << >> THEN "exited" ELSE "fetch"
  /\ UNCHANGED <<stop, req, tok, queueVars>>

(* while (!stop_) *)
CheckStop ==
  /\ wpc = "check"
  /\ wpc' = IF stop THEN "exited" ELSE "fetch"
  /\ UNCHANGED <<stop, req, tok, queueVars>>

Fetch ==
  /\ wpc = "fetch"
  /\ FetchRequest(req')
  /\ tok' = 0
  /\ wpc' = IF 0 < req'.max_tokens THEN "launch" ELSE "check"
  /\ UNCHANGED stop

FetchFindsNothing ==
  /\ wpc = "fetch"
  /\ request_queue = << >>
  /\ wpc' = "check"
  /\ UNCHANGED <<stop, req, tok, queueVars>>

(* router_.launch returns or throws.  The first launch of a request reads  *)
(* the input tensor, the later ones the worker's own output_token_id.      *)
(* Nobody catches what it throws: it leaves the thread function, and       *)
(* std::terminate ends the process.                                        *)
Launch ==
  /\ wpc = "launch"
  /\ wpc' \in {"push", "terminated"}
  /\ UNCHANGED <<stop, req, tok, queueVars>>

(* Fault: the last but one token is marked as the last. *)
PushFinishesEarly ==
  /\ wpc = "push"
  /\ PushResponse([id |-> req.id, index |-> tok, decodable |-> TRUE,
                   is_finished |-> tok + 2 >= req.max_tokens])
  /\ tok' = tok + 1
  /\ wpc' = IF tok' < req.max_tokens THEN "launch" ELSE "check"
  /\ req' = IF tok' < req.max_tokens THEN req ELSE Idle
  /\ UNCHANGED stop

Push ==
  /\ wpc = "push"
  /\ \E decodable \in IF MayMisdecode THEN BOOLEAN ELSE {TRUE} :
       PushResponse([id |-> req.id, index |-> tok, decodable |-> decodable,
                     is_finished |-> tok = req.max_tokens - 1])
  /\ tok' = tok + 1
  /\ wpc' = IF tok' < req.max_tokens THEN "launch" ELSE "check"
  /\ req' = IF tok' < req.max_tokens THEN req ELSE Idle
  /\ UNCHANGED stop

WorkerStep ==
  \/ CheckStop
  \/ Fetch \/ FetchFindsNothing
  \/ Launch
  \/ Push

(* The destructor sets stop_ and joins. *)
Stop ==
  /\ ~ stop
  /\ stop' = TRUE
  /\ UNCHANGED <<wpc, req, tok, queueVars>>

Prefilling(r) == wpc = "launch" /\ req.id = r /\ tok = 0

=============================================================================
