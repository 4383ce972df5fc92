--------------------------- MODULE KineticServer ---------------------------
(***************************************************************************)
(* KineticServer._async_generate of python/kinetic_rt/serve.py, composed   *)
(* with the worker it shares an InferenceQueue with.                       *)
(*                                                                         *)
(* Every HTTP request runs one coroutine.  They share one event loop, so a *)
(* coroutine runs undisturbed from one await to the next: a step here is   *)
(* such a stretch.  Only the worker thread moves in between.               *)
(*                                                                         *)
(* A token is known by its index; which requests come, with which prompts, *)
(* is open.                                                                *)
(***************************************************************************)
EXTENDS InferenceWorker, FiniteSets

CONSTANTS
  PromptLens,     \* the lengths each request's encoded prompt may have
  MaxTokens,      \* the max_tokens clients ask for
  MaxSeqLen       \* runtime.max_seq_len

ASSUME ServerAssumption ==
  /\ PromptLens \in [Requests -> SUBSET Nat]
  /\ MaxTokens \subseteq Nat \ {0}
  /\ MaxSeqLen \in Nat \ {0}

VARIABLES
  coro,         \* where each request's coroutine is, or how it ended
  max_tokens,   \* its max_tokens, clamped to the context window
  delivered,    \* the tokens it has yielded
  pinned,       \* pinned_tensors
  pending,      \* _pending_responses
  lost          \* the responses a raising poll has swallowed

serverVars == <<coro, max_tokens, delivered, pinned, pending, lost>>
vars == <<serverVars, workerVars, queueVars>>

Terminated == wpc = "terminated"

Ended == {"rejected", "error", "aborted", "timeout", "finished"}

Init ==
  /\ QueueInit
  /\ WorkerInit
  /\ coro = [r \in Requests |-> "new"]
  /\ max_tokens = [r \in Requests |-> 0]
  /\ delivered = [r \in Requests |-> << >>]
  /\ pinned = {}
  /\ pending = [r \in Requests |-> << >>]
  /\ lost = {}

(* submit spins on the event loop's thread: nobody else runs meanwhile, and*)
(* once the process is terminated nobody runs at all.                      *)
LoopIsFree ==
  ~ Terminated /\ \A r \in Requests : coro[r] # "submit"

(* The finally clause. *)
End(r, how) ==
  /\ coro' = [coro EXCEPT ![r] = how]
  /\ pinned' = pinned \ {r}

Smaller(m, n) == IF m <= n THEN m ELSE n

-----------------------------------------------------------------------------
(* The prompt fills the context window: nothing is created or pinned. *)
Reject(r) ==
  /\ LoopIsFree /\ ~ stop
  /\ coro[r] = "new"
  /\ \E len \in PromptLens[r] : len >= MaxSeqLen
  /\ coro' = [coro EXCEPT ![r] = "rejected"]
  /\ UNCHANGED <<max_tokens, delivered, pinned, pending, lost, workerVars,
                 queueVars>>

Start(r) ==
  /\ LoopIsFree /\ ~ stop
  /\ coro[r] = "new"
  /\ \E len \in PromptLens[r], wanted \in MaxTokens :
       /\ len < MaxSeqLen
       /\ max_tokens' =
            [max_tokens EXCEPT ![r] = Smaller(wanted, MaxSeqLen - len)]
  /\ coro' = [coro EXCEPT ![r] = "submit"]
  /\ pinned' = pinned \cup {r}
  /\ UNCHANGED <<delivered, pending, lost, workerVars, queueVars>>

(* The tensor is not where the backend can read it. *)
ValidationFails(r) ==
  /\ ~ Terminated
  /\ coro[r] = "submit"
  /\ End(r, "error")
  /\ pending' = [pending EXCEPT ![r] = << >>]
  /\ UNCHANGED <<max_tokens, delivered, lost, workerVars, queueVars>>

(* Fault: the tensor is let go as soon as the request is queued. *)
SubmitUnpins(r) ==
  /\ coro[r] = "submit"
  /\ Submit([id |-> r, max_tokens |-> max_tokens[r]])
  /\ End(r, "wait")
  /\ UNCHANGED <<max_tokens, delivered, pending, lost, workerVars>>

SubmitRequest(r) ==
  /\ ~ Terminated
  /\ coro[r] = "submit"
  /\ Submit([id |-> r, max_tokens |-> max_tokens[r]])
  /\ coro' = [coro EXCEPT ![r] = "wait"]
  /\ UNCHANGED <<max_tokens, delivered, pinned, pending, lost, workerVars>>

-----------------------------------------------------------------------------
(* A turn of the polling loop. *)

InLoop(r) == LoopIsFree /\ coro[r] = "wait"

(* What the coroutine does with a response of its own: rest is what stays  *)
(* pending.  A token beyond max_tokens would end the stream undelivered.   *)
Accept(r, resp, rest) ==
  LET fits == Len(delivered[r]) < max_tokens[r] IN
  /\ delivered' = IF fits THEN [delivered EXCEPT ![r] = Append(@, resp.index)]
                          ELSE delivered
  /\ IF resp.is_finished \/ ~ fits
       THEN /\ End(r, "finished")
            /\ pending' = [pending EXCEPT ![r] = << >>]
       ELSE /\ UNCHANGED <<coro, pinned>>
            /\ pending' = [pending EXCEPT ![r] = rest]
  /\ UNCHANGED <<max_tokens, lost, workerVars>>

TakePending(r) ==
  /\ InLoop(r)
  /\ pending[r] # << >>
  /\ Accept(r, Head(pending[r]), Tail(pending[r]))
  /\ UNCHANGED queueVars

(* Fault: the ring is polled before what is pending is looked at. *)
PollOwnFirst(r) ==
  /\ InLoop(r)
  /\ response_queue # << >>
  /\ LET resp == Head(response_queue) IN
       /\ resp.id = r
       /\ Poll(resp)
       /\ Accept(r, resp, pending[r])

PollOwn(r) ==
  /\ InLoop(r)
  /\ pending[r] = << >>
  /\ response_queue # << >>
  /\ LET resp == Head(response_queue) IN
       /\ resp.id = r
       /\ Poll(resp)
       /\ Accept(r, resp, << >>)

(* Fault: somebody else's response is dropped. *)
PollOtherDrops(r) ==
  /\ InLoop(r)
  /\ pending[r] = << >>
  /\ response_queue # << >>
  /\ LET resp == Head(response_queue) IN
       /\ resp.id # r
       /\ Poll(resp)
  /\ End(r, "timeout") \/ UNCHANGED <<coro, pinned>>
  /\ UNCHANGED <<max_tokens, delivered, pending, lost, workerVars>>

(* Somebody else's response is put aside for it; the deadline is looked at *)
(* as if nothing had come.                                                 *)
PollOther(r) ==
  /\ InLoop(r)
  /\ pending[r] = << >>
  /\ response_queue # << >>
  /\ LET resp == Head(response_queue) IN
       /\ resp.id # r
       /\ Poll(resp)
       /\ pending' = [pending EXCEPT ![resp.id] = Append(@, resp)]
  /\ End(r, "timeout") \/ UNCHANGED <<coro, pinned>>
  /\ UNCHANGED <<max_tokens, delivered, lost, workerVars>>

(* Whoever polls a response that cannot be decoded fails, be it its own or *)
(* not, and the response is gone.                                          *)
PollFails(r) ==
  /\ InLoop(r)
  /\ pending[r] = << >>
  /\ response_queue # << >>
  /\ LET resp == Head(response_queue) IN
       /\ PollRaises(resp)
       /\ lost' = lost \cup {<<resp.id, resp.index>>}
  /\ End(r, "error")
  /\ UNCHANGED <<max_tokens, delivered, pending, workerVars>>

(* Fault: the deadline is for the first token only. *)
TimeOutBeforeFirstToken(r) ==
  /\ InLoop(r)
  /\ pending[r] = << >> /\ delivered[r] = << >>
  /\ PollFindsNothing
  /\ End(r, "timeout")
  /\ UNCHANGED <<max_tokens, delivered, pending, lost, workerVars>>

TimeOut(r) ==
  /\ InLoop(r)
  /\ pending[r] = << >>
  /\ PollFindsNothing
  /\ End(r, "timeout")
  /\ UNCHANGED <<max_tokens, delivered, pending, lost, workerVars>>

(* The client is gone: found by is_disconnected, or the generator is closed*)
(* at one of its awaits.                                                   *)
Disconnect(r) ==
  /\ InLoop(r)
  /\ End(r, "aborted")
  /\ pending' = [pending EXCEPT ![r] = << >>]
  /\ UNCHANGED <<max_tokens, delivered, lost, workerVars, queueVars>>

(* The server object goes when the event loop has ended. *)
Shutdown ==
  /\ ~ Terminated
  /\ \A r \in Requests : coro[r] \in Ended \cup {"new"}
  /\ Stop
  /\ UNCHANGED serverVars

-----------------------------------------------------------------------------
Turn(r) == TakePending(r) \/ PollOwn(r) \/ PollOther(r) \/ PollFails(r)

Worker == WorkerStep /\ UNCHANGED serverVars

Next ==
  \/ \E r \in Requests :
       \/ Reject(r) \/ Start(r) \/ ValidationFails(r) \/ SubmitRequest(r)
       \/ Turn(r) \/ TimeOut(r) \/ Disconnect(r)
  \/ Worker
  \/ Shutdown

(***************************************************************************)
(* The event loop gives every coroutine its turn, the worker thread is     *)
(* scheduled and its launches return, and deadlines pass.  Clients need not*)
(* come or go, and nobody need shut the server down.                       *)
(***************************************************************************)
Fairness ==
  /\ \A r \in Requests :
       WF_vars(SubmitRequest(r)) /\ WF_vars(Turn(r)) /\ WF_vars(TimeOut(r))
  /\ WF_vars(Worker)

Spec     == Init /\ [][Next]_vars
FairSpec == Spec /\ Fairness

-----------------------------------------------------------------------------
Response ==
  [id: Requests, index: Nat, decodable: BOOLEAN, is_finished: BOOLEAN]
Request == [id: Requests, max_tokens: Nat]

(* Every variable has its type; the rings stay within their capacity. *)
TypeOK ==
  /\ request_queue \in Seq(Request) /\ Len(request_queue) <= ReqCapacity
  /\ response_queue \in Seq(Response) /\ Len(response_queue) <= RespCapacity
  /\ stop \in BOOLEAN
  /\ wpc \in {"check", "fetch", "launch", "push", "exited", "terminated"}
  /\ req \in Request \cup {Idle}
  /\ tok \in Nat
  /\ coro \in [Requests -> {"new", "submit", "wait"} \cup Ended]
  /\ max_tokens \in [Requests -> 0 .. MaxSeqLen]
  /\ delivered \in [Requests -> Seq(Nat)]
  /\ pinned \subseteq Requests
  /\ pending \in [Requests -> Seq(Response)]
  /\ lost \subseteq Requests \X Nat

Elements(s)     == {s[k] : k \in DOMAIN s}
Increasing(s)   == \A k \in 1 .. Len(s) - 1 : s[k] < s[k + 1]
Below(S, T)     == \A i \in S, j \in T : i < j
TokensIn(s, r)  == {resp.index : resp \in {x \in Elements(s) : x.id = r}}
InRing(r)       == TokensIn(response_queue, r)
LostTokens(r)   == {k \in 0 .. max_tokens[r] - 1 : <<r, k>> \in lost}
Queued(r)       == \E k \in DOMAIN request_queue : request_queue[k].id = r

(* The responses of each request come in the order of its tokens. *)
Ordered(s) ==
  \A j, k \in DOMAIN s : j < k /\ s[j].id = s[k].id => s[j].index < s[k].index

(* How far the worker is with a request that has been submitted. *)
Produced(r) ==
  CASE Queued(r)   -> 0
    [] req.id = r  -> tok
    [] OTHER       -> max_tokens[r]

(* Seen from the client that waits for it or has seen it end well, the     *)
(* stream of a request is what it was sent, then what other coroutines put *)
(* aside for it, then what is in the ring: together exactly the tokens the *)
(* worker has produced, once each and in order, but for those a failing    *)
(* poll swallowed (serve.py 114-129 and 198-211).                          *)
StreamContinuity ==
  \A r \in Requests : coro[r] \in {"wait", "finished"} =>
    LET sent  == Elements(delivered[r])
        aside == TokensIn(pending[r], r) IN
    /\ Increasing(delivered[r])
    /\ Ordered(pending[r]) /\ Ordered(response_queue)
    /\ Below(sent, aside) /\ Below(sent \cup aside, InRing(r))
    /\ sent \cup aside \cup InRing(r) \cup LostTokens(r) = 0 .. Produced(r) - 1

(* A stream that ends well is whole - every token the request asked for has*)
(* been sent, but those that a raising poll swallowed - and it leaves      *)
(* nothing behind: no response that nobody will ever collect, no pinned    *)
(* tensor, no work for the worker (serve.py 195-211 and 217-246).          *)
NothingLeft ==
  \A r \in Requests : coro[r] = "finished" =>
    /\ pending[r] = << >> /\ InRing(r) = {}
    /\ ~ Queued(r) /\ req.id # r /\ r \notin pinned

FinishedLeavesNothing ==
  /\ \A r \in Requests : coro[r] = "finished" =>
       Elements(delivered[r]) \cup LostTokens(r) = 0 .. max_tokens[r] - 1
  /\ NothingLeft

(* The worker reads the input of a request whose tensor is still pinned,   *)
(* unless the request has been given up (AsyncAPI.h 85-92, serve.py 181 and*)
(* 243-246).                                                               *)
InputPinnedUnlessGivenUp ==
  \A r \in Requests : Queued(r) \/ Prefilling(r) =>
    r \in pinned \/ coro[r] \in {"aborted", "timeout", "error"}

(* To its clients the server is a GenerationService, whoever polls whose   *)
(* responses: tokens in order, each once, streams whole when they finish,  *)
(* nothing after the end, and one failed request for a token that a raising*)
(* poll swallows (serve.py 193-246).                                       *)
Status(r) ==
  CASE coro[r] \in {"submit", "wait"}               -> "accepted"
    [] coro[r] \in {"error", "aborted", "timeout"}  -> "given up"
    [] OTHER                                        -> coro[r]

Service == INSTANCE GenerationService WITH
  MaxLimit <- MaxSeqLen,
  status   <- [r \in Requests |-> Status(r)],
  limit    <- max_tokens,
  output   <- delivered,
  missing  <- lost

ImplementsService == Service!Spec

(* A request that was accepted comes to an end, unless a launch that throws*)
(* takes the process with it, or submit and the worker spin on each other: *)
(* submit on the full request ring with the event loop and the GIL, the    *)
(* worker on the full response ring that only the event loop drains        *)
(* (serve.py 193-242, AsyncAPI.h 31 and 55).                               *)
Stalled ==
  /\ \E r \in Requests : coro[r] = "submit"
  /\ wpc = "push"
  /\ Len(request_queue) = ReqCapacity /\ Len(response_queue) = RespCapacity

RequestsEnd ==
  \A r \in Requests :
    coro[r] \in {"submit", "wait"} ~> coro[r] \in Ended \/ Terminated \/ Stalled

(* A worker told to stop finishes the request it is at and exits, if the   *)
(* response ring has room for the rest (AsyncAPI.h 70-79 and 107).         *)
Remaining ==
  CASE wpc \in {"launch", "push"} -> req.max_tokens - tok
    [] wpc = "fetch" /\ request_queue # << >> -> Head(request_queue).max_tokens
    [] OTHER -> 0

StopJoins ==
  stop /\ Remaining + Len(response_queue) <= RespCapacity
    ~> wpc = "exited" \/ Terminated

-----------------------------------------------------------------------------
(* What comments and tests of the repository say, and the code does not do.*)

(* AsyncAPI.h 91: "input_ptr is a direct GPU memory pointer (data_ptr())   *)
(* for the initial prefill layer" - of a tensor that is still alive.       *)
InputPinnedAtLaunch == \A r \in Requests : Prefilling(r) => r \in pinned

=============================================================================
