--------------------------- MODULE RequestContext ---------------------------
(***************************************************************************)
(* RequestContext of include/RequestContext.h: the lifecycle of one request*)
(* as any number of threads drive it.                                      *)
(*                                                                         *)
(* Every method takes mutex_ for its whole length, so it is one step, but  *)
(* for three things that happen outside of it: request_cancellation only   *)
(* stores an atomic flag, cleanup and the destructor run the callbacks they*)
(* have extracted after they released the mutex, and a backend step goes on*)
(* after ensure_executable has let it begin.  A call that throws changes   *)
(* nothing and is no step.                                                 *)
(*                                                                         *)
(* EndsBetweenSteps says whether callers see to it that a request reaches a*)
(* terminal state only while no backend step is in flight.  The class does *)
(* not enforce that, and it restricts nothing else: reasons are set, and   *)
(* states left, by whoever calls.                                          *)
(***************************************************************************)
EXTENDS Naturals, Sequences

CONSTANTS
  Threads,
  Owners,
  InitialOwner,       \* config.initial_owner
  Callbacks,          \* one per call of register_cleanup_callback
  HasDeadline,        \* config.timeout > 0
  EndsBetweenSteps

ASSUME ContextAssumption ==
  /\ InitialOwner \in Owners
  /\ HasDeadline \in BOOLEAN
  /\ EndsBetweenSteps \in BOOLEAN

VARIABLES
  state, owner, finish_reason,
  cancel_flag,
  expired,              \* the deadline has passed
  cleanup_callbacks,
  cleaned_up,
  alive,                \* not yet destroyed
  stepping,             \* threads in a backend step
  callbacks_to_run,     \* per thread: the extracted callbacks still to be run
  registered,           \* all callbacks ever registered, in order
  ran,                  \* all callbacks run, in order
  given                 \* history: the last reason that a caller has set

vars == <<state, owner, finish_reason, cancel_flag, expired, cleanup_callbacks,
          cleaned_up, alive, stepping, callbacks_to_run, registered, ran,
          given>>

lifecycle == <<state, finish_reason, given>>
teardown  == <<cleanup_callbacks, cleaned_up, alive, callbacks_to_run,
               registered, ran>>

Terminal == {"COMPLETE", "CANCELLED", "TIMED_OUT", "FAILED"}
RequestState ==
  {"RECEIVED", "VALIDATED", "TOKENIZED", "ENQUEUED", "PREFILL", "DECODE",
   "STREAMING"} \cup Terminal
CompletionReason ==
  {"STREAMING", "EOS", "STOP_TOKEN", "LENGTH", "CANCELLED", "TIMEOUT", "ERROR"}

Forward ==
  { <<"RECEIVED", "VALIDATED">>, <<"VALIDATED", "TOKENIZED">>,
    <<"TOKENIZED", "ENQUEUED">>, <<"ENQUEUED", "PREFILL">>,
    <<"PREFILL", "DECODE">>, <<"DECODE", "STREAMING">>,
    <<"STREAMING", "DECODE">>, <<"STREAMING", "COMPLETE">> }

is_legal_transition(from, to) ==
  /\ from \notin Terminal
  /\ to \in {"CANCELLED", "TIMED_OUT", "FAILED"} \/ <<from, to>> \in Forward

Init ==
  /\ state = "RECEIVED"
  /\ owner = InitialOwner
  /\ finish_reason = "STREAMING"
  /\ cancel_flag = FALSE
  /\ expired = FALSE
  /\ cleanup_callbacks = << >>
  /\ cleaned_up = FALSE
  /\ alive = TRUE
  /\ stepping = {}
  /\ callbacks_to_run = [t \in Threads |-> << >>]
  /\ registered = << >>
  /\ ran = << >>
  /\ given = finish_reason

-----------------------------------------------------------------------------
(* Lifecycle *)

MayEnd == EndsBetweenSteps => stepping = {}

transition_to(to) ==
  /\ alive
  /\ is_legal_transition(state, to)
  /\ to \in Terminal => MayEnd
  /\ state' = to
  /\ UNCHANGED <<owner, finish_reason, given, cancel_flag, expired, stepping,
                 teardown>>

request_cancellation ==
  /\ alive
  /\ cancel_flag' = TRUE
  /\ UNCHANGED <<lifecycle, owner, expired, stepping, teardown>>

acknowledge_cancellation ==
  /\ alive /\ MayEnd
  /\ cancel_flag
  /\ state \notin Terminal
  /\ finish_reason' = "CANCELLED"
  /\ state' = "CANCELLED"
  /\ UNCHANGED <<owner, given, cancel_flag, expired, stepping, teardown>>

PassDeadline ==
  /\ HasDeadline /\ ~ expired
  /\ expired' = TRUE
  /\ UNCHANGED <<lifecycle, owner, cancel_flag, stepping, teardown>>

(* Fault: the reason is written before the state is looked at. *)
acknowledge_timeout_reason_first ==
  /\ alive /\ MayEnd
  /\ expired
  /\ finish_reason' = "TIMEOUT"
  /\ state' = IF state \in Terminal THEN state ELSE "TIMED_OUT"
  /\ UNCHANGED <<owner, given, cancel_flag, expired, stepping, teardown>>

(* Fault: the state, not the reason. *)
acknowledge_timeout_wrong_enum ==
  /\ alive /\ MayEnd
  /\ expired
  /\ state \notin Terminal
  /\ finish_reason' = "TIMED_OUT"
  /\ state' = "TIMED_OUT"
  /\ UNCHANGED <<owner, given, cancel_flag, expired, stepping, teardown>>

acknowledge_timeout ==
  /\ alive /\ MayEnd
  /\ expired
  /\ state \notin Terminal
  /\ finish_reason' = "TIMEOUT"
  /\ state' = "TIMED_OUT"
  /\ UNCHANGED <<owner, given, cancel_flag, expired, stepping, teardown>>

transfer_ownership(new_owner, expected_current_owner) ==
  /\ alive
  /\ state \notin Terminal
  /\ owner = expected_current_owner
  /\ owner' = new_owner
  /\ UNCHANGED <<lifecycle, cancel_flag, expired, stepping, teardown>>

set_finish_reason(reason) ==
  /\ alive
  /\ finish_reason' = reason
  /\ given' = reason
  /\ UNCHANGED <<state, owner, cancel_flag, expired, stepping, teardown>>

-----------------------------------------------------------------------------
(* A backend step: it begins if ensure_executable does not throw. *)

BeginStep(t) ==
  /\ alive
  /\ t \notin stepping
  /\ state \notin Terminal
  /\ ~ cleaned_up
  /\ stepping' = stepping \cup {t}
  /\ UNCHANGED <<lifecycle, owner, cancel_flag, expired, teardown>>

EndStep(t) ==
  /\ t \in stepping
  /\ stepping' = stepping \ {t}
  /\ UNCHANGED <<lifecycle, owner, cancel_flag, expired, teardown>>

-----------------------------------------------------------------------------
(* Teardown *)

(* Fault: a callback is accepted by a context that was cleaned up. *)
register_cleanup_callback_late(cb) ==
  /\ alive
  /\ \A k \in DOMAIN registered : registered[k] # cb
  /\ cleanup_callbacks' = Append(cleanup_callbacks, cb)
  /\ registered' = Append(registered, cb)
  /\ UNCHANGED <<lifecycle, owner, cancel_flag, expired, stepping, cleaned_up,
                 alive, callbacks_to_run, ran>>

register_cleanup_callback(cb) ==
  /\ alive
  /\ ~ cleaned_up
  /\ \A k \in DOMAIN registered : registered[k] # cb
  /\ cleanup_callbacks' = Append(cleanup_callbacks, cb)
  /\ registered' = Append(registered, cb)
  /\ UNCHANGED <<lifecycle, owner, cancel_flag, expired, stepping, cleaned_up,
                 alive, callbacks_to_run, ran>>

extract_cleanup_callbacks(t) ==
  /\ cleaned_up' = TRUE
  /\ callbacks_to_run' = [callbacks_to_run EXCEPT ![t] = cleanup_callbacks]
  /\ cleanup_callbacks' = << >>
  /\ UNCHANGED <<registered, ran>>

(* Fault: cleanup before the request has ended. *)
cleanup_ungated(t) ==
  /\ alive
  /\ ~ cleaned_up
  /\ extract_cleanup_callbacks(t)
  /\ UNCHANGED <<lifecycle, owner, cancel_flag, expired, stepping, alive>>

cleanup(t) ==
  /\ alive
  /\ state \in Terminal
  /\ ~ cleaned_up
  /\ extract_cleanup_callbacks(t)
  /\ UNCHANGED <<lifecycle, owner, cancel_flag, expired, stepping, alive>>

(* Fault: the oldest callback first. *)
RunCallbackFirst(t) ==
  LET todo == callbacks_to_run[t] IN
  /\ todo # << >>
  /\ ran' = Append(ran, Head(todo))
  /\ callbacks_to_run' = [callbacks_to_run EXCEPT ![t] = Tail(todo)]
  /\ UNCHANGED <<lifecycle, owner, cancel_flag, expired, stepping,
                 cleanup_callbacks, cleaned_up, alive, registered>>

(* One callback, from the back; an exception it throws is swallowed.  It may*)
(* call any method of the context: other steps may come in between.        *)
RunCallback(t) ==
  LET todo == callbacks_to_run[t] IN
  /\ todo # << >>
  /\ ran' = Append(ran, todo[Len(todo)])
  /\ callbacks_to_run' =
       [callbacks_to_run EXCEPT ![t] = SubSeq(todo, 1, Len(todo) - 1)]
  /\ UNCHANGED <<lifecycle, owner, cancel_flag, expired, stepping,
                 cleanup_callbacks, cleaned_up, alive, registered>>

(* The destructor; nobody may be inside a method or a step any more. *)
Destroy(t) ==
  /\ alive
  /\ stepping = {}
  /\ \A u \in Threads : callbacks_to_run[u] = << >>
  /\ alive' = FALSE
  /\ IF cleaned_up
       THEN UNCHANGED <<cleaned_up, callbacks_to_run, cleanup_callbacks,
                        registered, ran>>
       ELSE extract_cleanup_callbacks(t)
  /\ UNCHANGED <<lifecycle, owner, cancel_flag, expired, stepping>>

-----------------------------------------------------------------------------
Next ==
  \/ \E to \in RequestState : transition_to(to)
  \/ request_cancellation \/ acknowledge_cancellation
  \/ PassDeadline \/ acknowledge_timeout
  \/ \E new, old \in Owners : transfer_ownership(new, old)
  \/ \E reason \in CompletionReason : set_finish_reason(reason)
  \/ \E cb \in Callbacks : register_cleanup_callback(cb)
  \/ \E t \in Threads :
       \/ BeginStep(t) \/ EndStep(t)
       \/ cleanup(t) \/ RunCallback(t) \/ Destroy(t)

(* A thread that has begun to run the callbacks goes on. *)
Fairness == \A t \in Threads : WF_vars(RunCallback(t))

Spec     == Init /\ [][Next]_vars
FairSpec == Spec /\ Fairness

-----------------------------------------------------------------------------
(* Every variable has its type. *)
TypeOK ==
  /\ state \in RequestState
  /\ owner \in Owners
  /\ finish_reason \in CompletionReason
  /\ given \in CompletionReason
  /\ cancel_flag \in BOOLEAN
  /\ expired \in BOOLEAN
  /\ cleanup_callbacks \in Seq(Callbacks)
  /\ cleaned_up \in BOOLEAN
  /\ alive \in BOOLEAN
  /\ stepping \in SUBSET Threads
  /\ callbacks_to_run \in [Threads -> Seq(Callbacks)]
  /\ registered \in Seq(Callbacks)
  /\ ran \in Seq(Callbacks)

(* The callbacks run in LIFO order, each at most once and by one thread,   *)
(* whoever calls cleanup, the destructor included, and however often: those*)
(* that ran and those that one thread still has to run are what had been   *)
(* registered, and none can be added later (RequestContext.h 168-175).     *)
RunBy(t) ==
  LET n == Len(registered)
      todo == callbacks_to_run[t]
  IN  /\ Len(ran) + Len(todo) = n
      /\ \A k \in 1 .. Len(todo) : todo[k] = registered[k]
      /\ \A k \in 1 .. Len(ran) : ran[k] = registered[n + 1 - k]
      /\ \A u \in Threads \ {t} : callbacks_to_run[u] = << >>

LIFOExactlyOnce ==
  IF cleaned_up
    THEN cleanup_callbacks = << >> /\ \E t \in Threads : RunBy(t)
    ELSE /\ cleanup_callbacks = registered
         /\ ran = << >>
         /\ \A t \in Threads : callbacks_to_run[t] = << >>

(* While the context lives, no callback runs before the request has ended, *)
(* nor while a backend step is in flight that might still use what the     *)
(* callback frees (RequestContext.h 172: "Terminal-gated to prevent racing *)
(* with in-flight backend steps").                                         *)
NoCallbackDuringStep ==
  alive /\ cleaned_up => state \in Terminal /\ stepping = {}

(* A reason that no caller has set is the one the request has ended for:   *)
(* its state, and the flag or deadline that let it end so, agree.  Of two  *)
(* acknowledgements that race each other, or a transition to another end,  *)
(* the loser leaves no trace (RequestContext.cpp 183-193 and 211-224).     *)
ReasonFitsState ==
  finish_reason # given =>
    \/ finish_reason = "CANCELLED" /\ state = "CANCELLED" /\ cancel_flag
    \/ finish_reason = "TIMEOUT" /\ state = "TIMED_OUT" /\ expired

(* Once the context is cleaned up, or destroyed, every callback registered *)
(* is run (RequestContext.cpp 104-122 and 369-393).                        *)
AllCallbacksRun == cleaned_up ~> Len(ran) = Len(registered)

=============================================================================
