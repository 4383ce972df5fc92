------------------------ MODULE RequestContextProofs ------------------------
(***************************************************************************)
(* For any threads, owners and callbacks: the callbacks run in LIFO order  *)
(* and exactly once; a reason that no caller set is the one the request has*)
(* ended for; and, if the callers end a request only between its backend   *)
(* steps, no callback runs during a step.                                  *)
(*                                                                         *)
(* LIFOExactlyOnce is inductive beside the types.  That no callback runs   *)
(* during a step is not: it rests on no step being in flight from the      *)
(* moment the request has ended.                                           *)
(***************************************************************************)
EXTENDS RequestContext, TLAPS

LEMMA InitType == Init => TypeOK /\ LIFOExactlyOnce
<1>1. Init => TypeOK
  <2> SUFFICES ASSUME Init PROVE TypeOK
    OBVIOUS
  <2>1. /\ state \in RequestState /\ owner \in Owners
        /\ finish_reason \in CompletionReason /\ given \in CompletionReason
        /\ cancel_flag \in BOOLEAN /\ expired \in BOOLEAN
        /\ cleaned_up \in BOOLEAN /\ alive \in BOOLEAN
        /\ stepping \in SUBSET Threads
    BY ContextAssumption DEF Init, RequestState, CompletionReason
  <2>2. /\ cleanup_callbacks \in Seq(Callbacks)
        /\ registered \in Seq(Callbacks)
        /\ ran \in Seq(Callbacks)
        /\ callbacks_to_run \in [Threads -> Seq(Callbacks)]
    BY DEF Init
  <2> QED
    BY <2>1, <2>2 DEF TypeOK
<1>2. Init => LIFOExactlyOnce
  BY DEF Init, LIFOExactlyOnce
<1> QED
  BY <1>1, <1>2

(* The steps that leave the teardown state alone. *)
Outside ==
  \/ \E to \in RequestState : transition_to(to)
  \/ request_cancellation \/ acknowledge_cancellation
  \/ PassDeadline \/ acknowledge_timeout
  \/ \E new, old \in Owners : transfer_ownership(new, old)
  \/ \E reason \in CompletionReason : set_finish_reason(reason)
  \/ \E t \in Threads : BeginStep(t) \/ EndStep(t)

LEMMA OutsideStep ==
  ASSUME TypeOK, LIFOExactlyOnce, Outside
  PROVE  TypeOK' /\ LIFOExactlyOnce' /\ UNCHANGED teardown
<1>1. UNCHANGED teardown
  BY DEF Outside, transition_to, request_cancellation,
         acknowledge_cancellation, PassDeadline, acknowledge_timeout,
         transfer_ownership, set_finish_reason, BeginStep, EndStep
<1>2. LIFOExactlyOnce'
  BY <1>1 DEF teardown, LIFOExactlyOnce, RunBy
<1>3. /\ state' \in RequestState /\ owner' \in Owners
      /\ finish_reason' \in CompletionReason /\ given' \in CompletionReason
  BY DEF Outside, TypeOK, transition_to, request_cancellation,
         acknowledge_cancellation, PassDeadline, acknowledge_timeout,
         transfer_ownership, set_finish_reason, BeginStep, EndStep,
         lifecycle, RequestState, CompletionReason, Terminal
<1>4. cancel_flag' \in BOOLEAN /\ expired' \in BOOLEAN
  BY DEF Outside, TypeOK, transition_to, request_cancellation,
         acknowledge_cancellation, PassDeadline, acknowledge_timeout,
         transfer_ownership, set_finish_reason, BeginStep, EndStep
<1>5. stepping' \in SUBSET Threads
  BY DEF Outside, TypeOK, transition_to, request_cancellation,
         acknowledge_cancellation, PassDeadline, acknowledge_timeout,
         transfer_ownership, set_finish_reason, BeginStep, EndStep
<1> QED
  BY <1>1, <1>2, <1>3, <1>4, <1>5 DEF TypeOK, teardown

LEMMA RegisterStep ==
  ASSUME TypeOK, LIFOExactlyOnce, NEW cb \in Callbacks,
         register_cleanup_callback(cb)
  PROVE  TypeOK' /\ LIFOExactlyOnce'
<1> USE DEF register_cleanup_callback, lifecycle
<1>1. TypeOK'
  BY DEF TypeOK
<1>2. LIFOExactlyOnce'
  BY DEF LIFOExactlyOnce
<1> QED
  BY <1>1, <1>2

(* After the extraction, thread t has all the callbacks to run. *)
LEMMA ExtractStep ==
  ASSUME TypeOK, LIFOExactlyOnce, ~ cleaned_up, NEW t \in Threads,
         extract_cleanup_callbacks(t)
  PROVE  /\ LIFOExactlyOnce'
         /\ cleaned_up' = TRUE
         /\ cleanup_callbacks' \in Seq(Callbacks)
         /\ callbacks_to_run' \in [Threads -> Seq(Callbacks)]
<1> USE DEF TypeOK, extract_cleanup_callbacks
<1>1. RunBy(t)'
  BY DEF LIFOExactlyOnce, RunBy
<1>2. LIFOExactlyOnce'
  BY <1>1 DEF LIFOExactlyOnce
<1> QED
  BY <1>2

LEMMA RunStep ==
  ASSUME TypeOK, LIFOExactlyOnce, NEW t \in Threads, RunCallback(t)
  PROVE  TypeOK' /\ LIFOExactlyOnce'
<1> DEFINE todo == callbacks_to_run[t]
           rest == callbacks_to_run'[t]
           n    == Len(registered)
<1>1. /\ todo \in Seq(Callbacks) /\ todo # << >>
      /\ Len(todo) \in Nat \ {0}
      /\ todo[Len(todo)] \in Callbacks
  BY DEF TypeOK, RunCallback
<1>2. /\ rest \in Seq(Callbacks)
      /\ Len(rest) = Len(todo) - 1
      /\ \A k \in 1 .. Len(todo) - 1 : rest[k] = todo[k]
      /\ \A u \in Threads \ {t} : callbacks_to_run'[u] = callbacks_to_run[u]
  <2>1. rest = SubSeq(todo, 1, Len(todo) - 1)
    BY DEF TypeOK, RunCallback
  <2>2. \A u \in Threads \ {t} : callbacks_to_run'[u] = callbacks_to_run[u]
    BY DEF TypeOK, RunCallback
  <2> QED
    BY <1>1, <2>1, <2>2
<1>3. /\ ran' \in Seq(Callbacks)
      /\ Len(ran') = Len(ran) + 1
      /\ ran'[Len(ran) + 1] = todo[Len(todo)]
      /\ \A k \in 1 .. Len(ran) : ran'[k] = ran[k]
  BY <1>1 DEF TypeOK, RunCallback
<1>4. TypeOK'
  BY <1>2, <1>3 DEF TypeOK, RunCallback, lifecycle
<1>5. cleaned_up /\ cleanup_callbacks = << >> /\ RunBy(t)
  BY <1>1 DEF LIFOExactlyOnce, RunBy
<1>6. /\ Len(ran) + Len(todo) = n
      /\ \A k \in 1 .. Len(todo) : todo[k] = registered[k]
      /\ \A k \in 1 .. Len(ran) : ran[k] = registered[n + 1 - k]
      /\ \A u \in Threads \ {t} : callbacks_to_run[u] = << >>
  BY <1>5 DEF RunBy
<1>7. n \in Nat /\ Len(ran) \in Nat
  BY DEF TypeOK
<1> HIDE DEF todo, rest, n
<1>8. /\ Len(ran') + Len(rest) = n
      /\ \A k \in 1 .. Len(rest) : rest[k] = registered[k]
  <2>1. Len(ran') + Len(rest) = n
    <3>1. /\ Len(ran') = Len(ran) + 1 /\ Len(rest) = Len(todo) - 1
          /\ Len(ran) + Len(todo) = n
      BY <1>2, <1>3, <1>6
    <3>2. Len(ran) \in Nat /\ Len(todo) \in Nat /\ n \in Nat
      BY <1>1, <1>7
    <3> QED
      BY <3>1, <3>2
  <2>2. \A k \in 1 .. Len(rest) : k \in 1 .. Len(todo) - 1 /\ k \in 1 .. Len(todo)
    BY <1>1, <1>2
  <2> QED
    BY <1>2, <1>6, <2>1, <2>2
<1>9. \A k \in 1 .. Len(ran') : ran'[k] = registered[n + 1 - k]
  <2> SUFFICES ASSUME NEW k \in 1 .. Len(ran')
               PROVE  ran'[k] = registered[n + 1 - k]
    OBVIOUS
  <2>1. CASE k = Len(ran) + 1
    <3>1. n + 1 - k = Len(todo)
      BY <1>1, <1>6, <1>7, <2>1
    <3>2. todo[Len(todo)] = registered[Len(todo)]
      BY <1>1, <1>6
    <3> QED
      BY <1>3, <2>1, <3>1, <3>2
  <2>2. CASE k # Len(ran) + 1
    <3>1. k \in 1 .. Len(ran)
      BY <1>3, <1>7, <2>2
    <3> QED
      BY <1>3, <1>6, <3>1
  <2> QED
    BY <2>1, <2>2
<1>10. registered' = registered /\ cleaned_up' /\ cleanup_callbacks' = << >>
  BY <1>5 DEF RunCallback
<1>11. RunBy(t)'
  BY <1>2, <1>6, <1>8, <1>9, <1>10 DEF RunBy, rest, n
<1>12. LIFOExactlyOnce'
  BY <1>10, <1>11 DEF LIFOExactlyOnce
<1> QED
  BY <1>4, <1>12

LEMMA TeardownInvariant ==
  TypeOK /\ LIFOExactlyOnce /\ [Next]_vars => TypeOK' /\ LIFOExactlyOnce'
<1> SUFFICES ASSUME TypeOK, LIFOExactlyOnce, [Next]_vars
             PROVE  TypeOK' /\ LIFOExactlyOnce'
  OBVIOUS
<1>1. CASE Outside
  BY <1>1, OutsideStep
<1>2. ASSUME NEW cb \in Callbacks, register_cleanup_callback(cb)
      PROVE  TypeOK' /\ LIFOExactlyOnce'
  BY <1>2, RegisterStep
<1>3. ASSUME NEW t \in Threads, cleanup(t)
      PROVE  TypeOK' /\ LIFOExactlyOnce'
  <2>1. /\ ~ cleaned_up /\ extract_cleanup_callbacks(t)
        /\ UNCHANGED <<lifecycle, owner, cancel_flag, expired, stepping, alive>>
    BY <1>3 DEF cleanup
  <2>2. registered' \in Seq(Callbacks) /\ ran' \in Seq(Callbacks)
    BY <2>1 DEF extract_cleanup_callbacks, TypeOK
  <2> QED
    BY <2>1, <2>2, ExtractStep DEF TypeOK, lifecycle
<1>4. ASSUME NEW t \in Threads, RunCallback(t)
      PROVE  TypeOK' /\ LIFOExactlyOnce'
  BY <1>4, RunStep
<1>5. ASSUME NEW t \in Threads, Destroy(t)
      PROVE  TypeOK' /\ LIFOExactlyOnce'
  <2>1. CASE cleaned_up
    <3>1. /\ alive' = FALSE
          /\ UNCHANGED <<cleaned_up, callbacks_to_run, cleanup_callbacks,
                         registered, ran>>
          /\ UNCHANGED <<lifecycle, owner, cancel_flag, expired, stepping>>
      BY <1>5, <2>1 DEF Destroy
    <3>2. TypeOK'
      BY <3>1 DEF TypeOK, lifecycle
    <3>3. LIFOExactlyOnce'
      BY <3>1 DEF LIFOExactlyOnce, RunBy
    <3> QED
      BY <3>2, <3>3
  <2>2. CASE ~ cleaned_up
    <3>1. /\ extract_cleanup_callbacks(t)
          /\ alive' = FALSE
          /\ UNCHANGED <<lifecycle, owner, cancel_flag, expired, stepping>>
      BY <1>5, <2>2 DEF Destroy
    <3>2. registered' \in Seq(Callbacks) /\ ran' \in Seq(Callbacks)
      BY <3>1 DEF extract_cleanup_callbacks, TypeOK
    <3> QED
      BY <2>2, <3>1, <3>2, ExtractStep DEF TypeOK, lifecycle
  <2> QED
    BY <2>1, <2>2
<1>6. CASE UNCHANGED vars
  BY <1>6 DEF vars, TypeOK, LIFOExactlyOnce, RunBy
<1> QED
  BY <1>1, <1>2, <1>3, <1>4, <1>5, <1>6 DEF Next, Outside

(* Every variable of the context keeps its type. *)
THEOREM ContextTypeCorrect == Spec => []TypeOK
BY InitType, TeardownInvariant, PTL DEF Spec

(* Whoever tears the context down and however often, the callbacks run in  *)
(* LIFO order and none runs twice (RequestContext.cpp 104-122, 356-400).   *)
THEOREM CallbacksLIFO == Spec => []LIFOExactlyOnce
BY InitType, TeardownInvariant, PTL DEF Spec

-----------------------------------------------------------------------------
(* Once the request has ended no backend step is in flight, and none begins*)
(* any more.                                                               *)
QuietAtEnd ==
  /\ state \in Terminal => stepping = {}
  /\ cleaned_up => stepping = {}
  /\ alive /\ cleaned_up => state \in Terminal

LEMMA QuietStep ==
  ASSUME EndsBetweenSteps, QuietAtEnd, [Next]_vars
  PROVE  QuietAtEnd'
<1> USE DEF QuietAtEnd
<1>1. ASSUME NEW to \in RequestState, transition_to(to)
      PROVE  QuietAtEnd'
  BY <1>1 DEF transition_to, is_legal_transition, MayEnd, teardown
<1>2. CASE acknowledge_cancellation \/ acknowledge_timeout
  BY <1>2 DEF acknowledge_cancellation, acknowledge_timeout, MayEnd, teardown
<1>3. ASSUME request_cancellation \/ PassDeadline
      PROVE  QuietAtEnd'
  BY <1>3 DEF request_cancellation, PassDeadline, lifecycle, teardown
<1>4. ASSUME NEW old \in Owners, NEW new \in Owners,
             transfer_ownership(new, old)
      PROVE  QuietAtEnd'
  BY <1>4 DEF transfer_ownership, lifecycle, teardown
<1>5. ASSUME NEW reason \in CompletionReason, set_finish_reason(reason)
      PROVE  QuietAtEnd'
  BY <1>5 DEF set_finish_reason, teardown
<1>6. ASSUME NEW cb \in Callbacks, register_cleanup_callback(cb)
      PROVE  QuietAtEnd'
  BY <1>6 DEF register_cleanup_callback, lifecycle
<1>7. ASSUME NEW t \in Threads, BeginStep(t) \/ EndStep(t)
      PROVE  QuietAtEnd'
  BY <1>7 DEF BeginStep, EndStep, lifecycle, teardown
<1>8. ASSUME NEW t \in Threads, cleanup(t) \/ RunCallback(t)
      PROVE  QuietAtEnd'
  BY <1>8 DEF cleanup, RunCallback, lifecycle
<1>9. ASSUME NEW t \in Threads, Destroy(t)
      PROVE  QuietAtEnd'
  BY <1>9 DEF Destroy
<1>10. CASE UNCHANGED vars
  BY <1>10 DEF vars
<1> QED
  BY <1>1, <1>2, <1>3, <1>4, <1>5, <1>6, <1>7, <1>8, <1>9, <1>10 DEF Next

(* If requests end only between backend steps, no callback frees what a    *)
(* step in flight uses (RequestContext.h 172).                             *)
THEOREM NoCleanupUnderAStep ==
  EndsBetweenSteps => (Spec => []NoCallbackDuringStep)
<1> SUFFICES ASSUME EndsBetweenSteps PROVE Spec => []NoCallbackDuringStep
  OBVIOUS
<1>1. Init => QuietAtEnd
  BY DEF Init, QuietAtEnd, Terminal
<1>2. QuietAtEnd => NoCallbackDuringStep
  BY DEF QuietAtEnd, NoCallbackDuringStep
<1> QED
  BY <1>1, <1>2, QuietStep, PTL DEF Spec

LEMMA ReasonStep ==
  ASSUME ReasonFitsState, [Next]_vars
  PROVE  ReasonFitsState'
<1> USE DEF ReasonFitsState
<1>1. CASE \E to \in RequestState : transition_to(to)
  <2>1. /\ state \notin Terminal
        /\ UNCHANGED <<finish_reason, given, cancel_flag, expired>>
    BY <1>1 DEF transition_to, is_legal_transition
  <2> QED
    BY <2>1 DEF Terminal
<1>2. CASE acknowledge_cancellation \/ acknowledge_timeout
  BY <1>2 DEF acknowledge_cancellation, acknowledge_timeout
<1>3. CASE \E reason \in CompletionReason : set_finish_reason(reason)
  BY <1>3 DEF set_finish_reason
<1>4. CASE request_cancellation \/ PassDeadline
  BY <1>4 DEF request_cancellation, PassDeadline, lifecycle
<1>5. CASE \/ \E new, old \in Owners : transfer_ownership(new, old)
           \/ \E cb \in Callbacks : register_cleanup_callback(cb)
           \/ \E t \in Threads : \/ BeginStep(t) \/ EndStep(t)
                                 \/ cleanup(t) \/ RunCallback(t) \/ Destroy(t)
  <2>1. UNCHANGED <<lifecycle, cancel_flag, expired>>
    BY <1>5 DEF transfer_ownership, register_cleanup_callback, BeginStep,
                EndStep, cleanup, RunCallback, Destroy
  <2> QED
    BY <2>1 DEF lifecycle
<1>6. CASE UNCHANGED vars
  BY <1>6 DEF vars
<1> QED
  BY <1>1, <1>2, <1>3, <1>4, <1>5, <1>6 DEF Next

(* Whatever the callers set and whenever: a reason none of them set is the *)
(* one of the acknowledgement that ended the request, and of those that    *)
(* race to end it the losers leave no trace (RequestContext.cpp 183-193 and*)
(* 211-224).                                                               *)
THEOREM ReasonMatches == Spec => []ReasonFitsState
<1>1. Init => ReasonFitsState
  BY DEF Init, ReasonFitsState
<1> QED
  BY <1>1, ReasonStep, PTL DEF Spec

=============================================================================
